---- MODULE Spec2Model ----
\* Verification model of the browser session manager (browser/playwright_manager.py),
\* the tab tools and the element-ref minting of browser/playwright_tools.py and
\* browser/accessibility_scanner.py.
EXTENDS FiniteSets, Integers, Sequences, TLC

\* ---------------------------------------------------------------- bounds
NumThreads == 2
MaxTabs == 3
MaxGen == 1
MaxElems == 2
MaxRef == 4
MaxCalls == 5
IssueCap == 2

Threads == 1..NumThreads
TabIds == 1..MaxTabs
\* A browser is either an instance of the Chrome that listens on the
\* remote-debugging endpoint (ids 1..MaxGen, one per start of that Chrome) or the
\* private browser launched by connect() of thread t (id -t).
ChromeIds == 1..MaxGen
BrowserIds == ChromeIds \cup {0 - t : t \in Threads}
None == 0
NoCtx == <<0, 0>>
Blank == "about:blank"
SiteUrls == {"U", "V"}
Urls == {Blank} \cup SiteUrls

VARIABLES
  chrome,        \* id of the Chrome instance listening on 127.0.0.1:9222, None if unreachable
  gens,          \* number of Chrome instances started so far
  ctxs,          \* browser id -> sequence of browsing contexts, each a sequence of open tabs
  url,           \* tab id -> page.url (kept after the tab is closed)
  nextTab,       \* next unused tab id
  frontTab,      \* tab last brought to front
  mgr,           \* thread -> fields of its PlaywrightManager
  gIndex,        \* PlaywrightManager._global_active_page_index
  gUrl,          \* PlaywrightManager._global_active_page_url
  launchLock,    \* holder of _BROWSER_LAUNCH_LOCK, None if free
  allManagers,   \* _all_managers
  connCount,     \* _connection_count
  pc,            \* thread -> position inside the call it is executing
  loc,           \* thread -> locals of the call it is executing
  res,           \* thread -> outcome of its last completed call
  ops,           \* kinds of driver calls made so far: "own" (by the thread that made the
                 \* session) and "foreign" (by another thread)
  calls,         \* number of calls begun so far
  created,       \* number of PlaywrightManager objects constructed so far
  appends,       \* thread -> number of times it appended a manager to _all_managers
  managersLock,  \* holder of _managers_lock, None if free
  dom,           \* what the page currently shows to the scan and overlay queries
  refCounter,    \* window.__refCounter of the page
  elementMap,    \* window.__elementMap: set of refs it holds
  ELEMENT_MAP,   \* accessibility_scanner.ELEMENT_MAP: set of keys it holds
  issued,        \* token -> number of times it was handed out in this page lifetime (saturating)
  lastScan,      \* tokens returned by the last scan or overlay enumeration, in order
  gone,          \* refs of window.__elementMap whose node was removed (the WeakRef is dead)
  scanBy,        \* the full scan that produced lastScan, "none" once the page changed or was clicked
  toolOut,       \* what the last click, resolve or fill call returned and did
  batch,         \* execute_action_sequence: its lines, its position and its results
  extraction     \* _extraction_session and the jobs of the file it names

browserVars == <<chrome, gens, ctxs, url, nextTab, frontTab>>
sessionVars == <<mgr, gIndex, gUrl, launchLock, allManagers, connCount, created, appends, managersLock>>
threadVars == <<pc, loc, res, ops, calls>>
toolVars == <<gone, scanBy, toolOut, batch, extraction>>
refVars == <<dom, refCounter, elementMap, ELEMENT_MAP, issued, lastScan, toolVars>>
vars == <<browserVars, sessionVars, threadVars, refVars>>

\* ---------------------------------------------------------------- helpers
Range(s) == {s[i] : i \in 1..Len(s)}

RECURSIVE Flatten(_)
Flatten(ss) == IF ss = <<>> THEN <<>> ELSE Head(ss) \o Flatten(Tail(ss))

\* for context in browser.contexts: all_pages.extend(context.pages)
AllPagesOf(b) == IF b = None THEN <<>> ELSE Flatten(ctxs[b])

\* context.pages of a context handle; a context of a browser that is gone has none
CtxPages(c) == IF c = NoCtx \/ c[2] > Len(ctxs[c[1]]) THEN <<>> ELSE ctxs[c[1]][c[2]]

\* page.is_closed()
IsClosed(p) == \A b \in BrowserIds : p \notin Range(AllPagesOf(b))

\* position (1-based) of the first occurrence of p in s, 0 if absent
IndexOf(s, p) == IF p \in Range(s) THEN CHOOSE i \in 1..Len(s) : s[i] = p /\ \A j \in 1..(i - 1) : s[j] # p ELSE 0

\* first page of s whose url is u, None if there is none
FirstWithUrl(s, u) == IF \E i \in 1..Len(s) : url[s[i]] = u THEN s[CHOOSE i \in 1..Len(s) : url[s[i]] = u /\ \A j \in 1..(i - 1) : url[s[j]] # u] ELSE None

\* made/serial: whether the thread-local slot holds a manager, and which object it is.
\* owns: the context handle is the persistent context this session launched.
NoManager == [made |-> FALSE, serial |-> 0, playwright |-> FALSE, browser |-> None, context |-> NoCtx, owns |-> FALSE, page |-> None, cdp |-> FALSE, quiet |-> FALSE]

\* PlaywrightManager.__init__
NewManager(serial) == [NoManager EXCEPT !.made = TRUE, !.serial = serial]

NoLoc == [attempts |-> 0, target |-> None, n |-> 0, wrote |-> FALSE]
NoRes == [op |-> "none", out |-> "none", val |-> None, att |-> 0]

HasOpenPage(m) == m.page # None /\ ~IsClosed(m.page)

\* PlaywrightManager.get_all_pages, over the contexts cx
PagesIn(cx, m) ==
  IF m.browser # None /\ m.cdp THEN Flatten(cx[m.browser])
  ELSE IF m.context # NoCtx /\ m.context[2] <= Len(cx[m.context[1]]) THEN cx[m.context[1]][m.context[2]]
  ELSE <<>>

get_all_pages(m) == PagesIn(ctxs, m)

Done(t, r) ==
  /\ pc' = [pc EXCEPT ![t] = "idle"]
  /\ loc' = [loc EXCEPT ![t] = NoLoc]
  /\ res' = [res EXCEPT ![t] = r]

\* att: number of attach attempts the call made
ResultA(op, out, val, att) == [op |-> op, out |-> out, val |-> val, att |-> att]
Result(op, out, val) == ResultA(op, out, val, 0)

\* thread t, which is not inside a call, begins one
Begins(t) ==
  /\ pc[t] = "idle"
  /\ calls < MaxCalls
  /\ calls' = calls + 1

\* ---------------------------------------------------------------- initial states
\* Tab layouts of a Chrome the user started before the process (launch_agent_browser.sh).
ChromeLayouts == { << <<1>> >>, << <<1, 2>> >>, << <<1>>, <<2>> >> }

\* one tab showing U
OneTab == { << <<1>> >> }

InitBrowser(up, lays) ==
  /\ chrome = IF up THEN 1 ELSE None
  /\ gens = IF up THEN 1 ELSE 0
  /\ \E lay \in lays : \E u \in [Range(Flatten(lay)) -> SiteUrls] :
       /\ (~up \/ lays = OneTab) => (lay = << <<1>> >> /\ u[1] = "U")
       /\ ctxs = [b \in BrowserIds |-> IF up /\ b = 1 THEN lay ELSE <<>>]
       /\ url = [p \in TabIds |-> IF up /\ p \in DOMAIN u THEN u[p] ELSE ""]
       /\ nextTab = IF up THEN Len(Flatten(lay)) + 1 ELSE 1
  /\ frontTab = IF up THEN 1 ELSE None

InitThreads ==
  /\ pc = [t \in Threads |-> "idle"]
  /\ loc = [t \in Threads |-> NoLoc]
  /\ res = [t \in Threads |-> NoRes]
  /\ ops = {}
  /\ calls = 0

\* Tokens: 'ref_k' of window.__refCounter and the integer keys of scan_page_elements
RefTok(k) == <<"ref", k>>
IdxTok(k) == <<"idx", k>>
Tokens == {RefTok(k) : k \in 1..MaxRef} \cup {IdxTok(k) : k \in 0..(MaxElems - 1)}

\* n: elements a full scan emits; ovl: visible overlays matched by the selector list of the
\* 'before' query; flt: visible elements matched only by [class*="filter"]; kids: overlay
\* descendants the first enumeration accepts; kidsRetry: those the retry query accepts.
DomStates == {d \in [n : 0..MaxElems, ovl : 0..1, flt : 0..1, kids : 0..MaxElems, kidsRetry : 0..MaxElems] :
                /\ d.kids <= d.kidsRetry
                /\ (d.ovl + d.flt = 0) => d.kidsRetry = 0}

InitRefs ==
  /\ dom \in {d \in DomStates : d.ovl + d.flt = 0}
  /\ refCounter = 0
  /\ elementMap = {}
  /\ ELEMENT_MAP = {}
  /\ issued = [k \in Tokens |-> 0]
  /\ lastScan = <<>>

\* the result record of a tool call: text is the leading phrase of the returned string,
\* changes the phrases of the click summary, url whether "[Current URL: ...]" is appended,
\* events the pointer and keyboard events the call issued, in order
\* ref the ref the call was given (NoRef: none), resolved what the resolver reported
NoRef == <<"none", 0>>
NoOut == [tool |-> "none", text |-> "none", changes |-> {}, url |-> FALSE, events |-> <<>>, asked |-> 0, slept |-> 0, sent |-> <<>>, shown |-> <<>>, reqY |-> 0, vh |-> 0, y |-> 0, delta |-> 0, refs |-> <<>>, ref |-> NoRef, resolved |-> "n/a"]

\* raw: the lines of the argument; lines: its non-blank lines; i: the index of the line the
\* loop is at; results: the list results; ran: the indexes of the lines dispatched so far
NoBatch == [pc |-> "idle", raw |-> <<>>, lines |-> <<>>, i |-> 0, results |-> <<>>, ran |-> <<>>]

\* _extraction_session as the module defines it (line 634); saved: the jobs of the file
NoSession == [file |-> FALSE, jobs |-> <<>>, pages |-> 0, saved |-> <<>>]

\* no tool call was made yet
InitTools ==
  /\ gone = {}
  /\ scanBy = "none"
  /\ toolOut = NoOut
  /\ batch = NoBatch
  /\ extraction = NoSession

\* module state of playwright_manager.py right after import
InitGlobals ==
  /\ gIndex = 0
  /\ gUrl = ""
  /\ launchLock = None
  /\ managersLock = None

\* no thread has asked for a manager yet
InitNoManagers ==
  /\ mgr = [t \in Threads |-> NoManager]
  /\ allManagers = <<>>
  /\ connCount = 0
  /\ created = 0
  /\ appends = [t \in Threads |-> 0]

\* every thread has called get_playwright_manager once, one after the other
InitManagers ==
  /\ mgr = [t \in Threads |-> [NewManager(t) EXCEPT !.quiet = (t > 1)]]
  /\ allManagers = [t \in Threads |-> t]
  /\ connCount = NumThreads
  /\ created = NumThreads
  /\ appends = [t \in Threads |-> 1]

\* ---------------------------------------------------------------- get_playwright_manager
\* a registry that never finds the thread's manager
HasManager_never(t) == FALSE

\* hasattr(_thread_local, 'manager')
HasManager(t) == mgr[t].made

\* get_playwright_manager up to the load of _connection_count
GpmCall(t) ==
  /\ Begins(t)
  /\ IF HasManager(t)
     THEN /\ res' = [res EXCEPT ![t] = Result("get_playwright_manager", "existing", mgr[t].serial)]
          /\ UNCHANGED <<mgr, created, pc, loc>>
     ELSE /\ mgr' = [mgr EXCEPT ![t] = NewManager(created + 1)]
          /\ created' = created + 1
          /\ loc' = [loc EXCEPT ![t] = [NoLoc EXCEPT !.n = connCount]]
          /\ pc' = [pc EXCEPT ![t] = "gpm_store"]
          /\ UNCHANGED res
  /\ UNCHANGED <<browserVars, gIndex, gUrl, launchLock, allManagers, connCount, appends, managersLock, ops, refVars>>

\* the store of _connection_count += 1
GpmStore(t) ==
  /\ pc[t] = "gpm_store"
  /\ connCount' = loc[t].n + 1
  /\ pc' = [pc EXCEPT ![t] = "gpm_quiet"]
  /\ UNCHANGED <<browserVars, mgr, gIndex, gUrl, launchLock, allManagers, created, appends, managersLock, loc, res, ops, calls, refVars>>

\* if _connection_count > 1: manager._quiet_mode = True
GpmQuiet(t) ==
  /\ pc[t] = "gpm_quiet"
  /\ mgr' = [mgr EXCEPT ![t].quiet = (connCount > 1)]
  /\ pc' = [pc EXCEPT ![t] = "gpm_append"]
  /\ UNCHANGED <<browserVars, gIndex, gUrl, launchLock, allManagers, connCount, created, appends, managersLock, loc, res, ops, calls, refVars>>

\* with _managers_lock: _all_managers.append(manager); return manager
GpmAppend(t) ==
  /\ pc[t] = "gpm_append"
  /\ managersLock = None
  /\ allManagers' = Append(allManagers, mgr[t].serial)
  /\ appends' = [appends EXCEPT ![t] = @ + 1]
  /\ Done(t, Result("get_playwright_manager", "created", mgr[t].serial))
  /\ UNCHANGED <<browserVars, mgr, gIndex, gUrl, launchLock, connCount, created, managersLock, ops, calls, refVars>>

\* ---------------------------------------------------------------- close and cleanup
\* the fields close() resets
ClosedManager(m) == [m EXCEPT !.page = None, !.context = NoCtx, !.owns = FALSE, !.browser = None, !.playwright = FALSE, !.cdp = FALSE]

\* close() of o's manager makes at least one driver call
TouchesDriver(o) == mgr[o].playwright \/ (~mgr[o].cdp /\ (mgr[o].context # NoCtx \/ mgr[o].browser # None))

\* close() of o's manager, run by thread a, ends browser b: only a session that is not
\* flagged as attached closes its context and browser; closing the persistent context it
\* launched ends that Chrome, closing a launched browser ends it, closing the default
\* context of a browser it attached to only disconnects.  On a thread other than the
\* owner's every driver call raises and is swallowed by close().
ClosesBrowser(a, o, b) ==
  /\ a = o
  /\ ~mgr[o].cdp
  /\ \/ mgr[o].context # NoCtx /\ mgr[o].context[1] = b /\ (mgr[o].owns \/ b < 0)
     \/ mgr[o].browser = b

\* close() of o's manager calls self._context.close(): the session is not flagged as
\* attached and holds a context
ClosesContext(o) == ~mgr[o].cdp /\ mgr[o].context # NoCtx

\* the managers _all_managers refers to
Tracked == {o \in Threads : mgr[o].made /\ mgr[o].serial \in Range(allManagers)}

\* a cleanup that forgets to clear the list
ClearedList_kept == allManagers

\* _all_managers.clear()
ClearedList == <<>>

\* with _managers_lock, in _cleanup_all_managers run by thread a (a pool thread of
\* close_browser_async or the thread that runs the atexit hooks)
CleanupBegin(a) ==
  /\ Begins(a)
  /\ managersLock = None
  /\ managersLock' = a
  /\ pc' = [pc EXCEPT ![a] = "cl_locked"]
  /\ UNCHANGED <<browserVars, mgr, gIndex, gUrl, launchLock, allManagers, connCount, created, appends, loc, res, ops, refVars>>

\* the loop over _all_managers, the clear and the release of the lock
CleanupAllManagers(a) ==
  /\ pc[a] = "cl_locked"
  /\ mgr' = [o \in Threads |-> IF o \in Tracked THEN ClosedManager(mgr[o]) ELSE mgr[o]]
  /\ ctxs' = [b \in BrowserIds |-> IF \E o \in Tracked : ClosesBrowser(a, o, b) THEN <<>> ELSE ctxs[b]]
  /\ chrome' = IF chrome # None /\ \E o \in Tracked : ClosesBrowser(a, o, chrome) THEN None ELSE chrome
  /\ ops' = ops \cup {IF a = o THEN "own" ELSE "foreign" : o \in {x \in Tracked : TouchesDriver(x)}}
  /\ allManagers' = ClearedList
  /\ managersLock' = None
  /\ Done(a, Result("_cleanup_all_managers", "ok", None))
  /\ UNCHANGED <<gens, url, nextTab, frontTab, gIndex, gUrl, launchLock, connCount, created, appends, calls, refVars>>

\* ---------------------------------------------------------------- set_page
\* set_page, the write of _global_active_page_url
SetPageUrl(m, p, urls) == IF m.browser # None /\ m.cdp THEN urls[p] ELSE gUrl

\* set_page, the best-effort write of _global_active_page_index
SetPageIndex(m, p, pages) == IF m.browser # None /\ m.cdp /\ IndexOf(pages, p) # 0 THEN IndexOf(pages, p) - 1 ELSE gIndex

CanOpen == nextTab <= MaxTabs

\* context.new_page(): a blank tab appended to context c
OpenedCtxs(c) == [ctxs EXCEPT ![c[1]][c[2]] = Append(@, nextTab)]
OpenedUrls == [url EXCEPT ![nextTab] = Blank]

\* ---------------------------------------------------------------- connect_real_chrome
\* the check before the lock, lines 280-284
RcCall(t) ==
  /\ Begins(t)
  /\ mgr[t].made
  /\ IF HasOpenPage(mgr[t])
     THEN Done(t, Result("connect_real_chrome", "page", mgr[t].page))
     ELSE /\ pc' = [pc EXCEPT ![t] = "rc_wait"]
          /\ UNCHANGED <<loc, res>>
  /\ UNCHANGED <<browserVars, sessionVars, ops, refVars>>

\* with _BROWSER_LAUNCH_LOCK
RcAcquire(t) ==
  /\ pc[t] = "rc_wait"
  /\ launchLock = None
  /\ launchLock' = t
  /\ pc' = [pc EXCEPT ![t] = "rc_locked"]
  /\ UNCHANGED <<browserVars, mgr, gIndex, gUrl, allManagers, connCount, created, appends, managersLock, loc, res, ops, calls, refVars>>

\* the page connect_real_chrome selects among the tabs of browser b, None if it takes the first one
RcSelected(b) ==
  IF gUrl = "" THEN None
  ELSE IF FirstWithUrl(CtxPages(<<b, 1>>), gUrl) # None THEN FirstWithUrl(CtxPages(<<b, 1>>), gUrl)
  ELSE FirstWithUrl(AllPagesOf(b), gUrl)

\* a block that keeps the lock when it is left
LockAfterAttach_held(t) == t

\* the holder of _BROWSER_LAUNCH_LOCK after thread t left the with block (by a return or
\* by an exception), line 284
LockAfterAttach(t) == None

\* the body under the lock, lines 285-360
RcAttach(t) ==
  /\ pc[t] = "rc_locked"
  /\ launchLock' = LockAfterAttach(t)
  /\ IF HasOpenPage(mgr[t])
     THEN /\ Done(t, Result("connect_real_chrome", "page", mgr[t].page))
          /\ UNCHANGED <<mgr, gIndex, gUrl, ctxs, url, nextTab, ops>>
     ELSE IF chrome = None
     THEN /\ mgr' = [mgr EXCEPT ![t].playwright = TRUE]
          /\ Done(t, ResultA("connect_real_chrome", "ConnectionError", None, loc[t].attempts + 1))
          /\ ops' = ops \cup {"own"}
          /\ UNCHANGED <<gIndex, gUrl, ctxs, url, nextTab>>
     ELSE LET b == chrome
              c == <<b, 1>>
              m == [mgr[t] EXCEPT !.playwright = TRUE, !.browser = b, !.cdp = TRUE, !.context = c, !.owns = FALSE]
          IN  /\ ops' = ops \cup {"own"}
              /\ IF CtxPages(c) # <<>>
                 THEN IF RcSelected(b) # None
                      THEN /\ mgr' = [mgr EXCEPT ![t] = [m EXCEPT !.page = RcSelected(b)]]
                           /\ Done(t, ResultA("connect_real_chrome", "page", RcSelected(b), loc[t].attempts + 1))
                           /\ UNCHANGED <<gIndex, gUrl, ctxs, url, nextTab>>
                      ELSE /\ mgr' = [mgr EXCEPT ![t] = [m EXCEPT !.page = CtxPages(c)[1]]]
                           /\ gUrl' = SetPageUrl(m, CtxPages(c)[1], url)
                           /\ gIndex' = SetPageIndex(m, CtxPages(c)[1], AllPagesOf(b))
                           /\ Done(t, ResultA("connect_real_chrome", "page", CtxPages(c)[1], loc[t].attempts + 1))
                           /\ UNCHANGED <<ctxs, url, nextTab>>
                 ELSE /\ CanOpen
                      /\ ctxs' = OpenedCtxs(c)
                      /\ url' = OpenedUrls
                      /\ nextTab' = nextTab + 1
                      /\ mgr' = [mgr EXCEPT ![t] = [m EXCEPT !.page = nextTab]]
                      /\ gUrl' = SetPageUrl(m, nextTab, OpenedUrls)
                      /\ gIndex' = SetPageIndex(m, nextTab, Flatten(OpenedCtxs(c)[b]))
                      /\ Done(t, ResultA("connect_real_chrome", "page", nextTab, loc[t].attempts + 1))
  /\ UNCHANGED <<chrome, gens, frontTab, allManagers, connCount, created, appends, managersLock, calls, refVars>>

\* the body under the lock when a driver call after connect_over_cdp raises (the except
\* clause of line 348 turns it into ConnectionError): early, browser.contexts or
\* new_context() of lines 303-306; late, self._page.title() of lines 334 and 339, which a
\* session that is not quiet calls after it chose its page
RcAttachRaises(t, late) ==
  /\ pc[t] = "rc_locked"
  /\ ~HasOpenPage(mgr[t])
  /\ chrome # None
  /\ launchLock' = LockAfterAttach(t)
  /\ ops' = ops \cup {"own"}
  /\ LET b == chrome
         c == <<b, 1>>
         m == [mgr[t] EXCEPT !.playwright = TRUE, !.browser = b, !.cdp = TRUE]
         p == IF RcSelected(b) # None THEN RcSelected(b) ELSE CtxPages(c)[1]
         m2 == [m EXCEPT !.context = c, !.owns = FALSE, !.page = p]
     IN  IF ~late
         THEN /\ mgr' = [mgr EXCEPT ![t] = m]
              /\ UNCHANGED <<gIndex, gUrl>>
         ELSE /\ ~mgr[t].quiet
              /\ CtxPages(c) # <<>>
              /\ mgr' = [mgr EXCEPT ![t] = m2]
              /\ gUrl' = IF RcSelected(b) # None THEN gUrl ELSE SetPageUrl(m2, p, url)
              /\ gIndex' = IF RcSelected(b) # None THEN gIndex ELSE SetPageIndex(m2, p, AllPagesOf(b))
  /\ Done(t, ResultA("connect_real_chrome", "ConnectionError", None, loc[t].attempts + 1))
  /\ UNCHANGED <<browserVars, allManagers, connCount, created, appends, managersLock, calls, refVars>>

\* ---------------------------------------------------------------- connect_to_chrome
\* lines 74-79: return the open page, or start the driver, or (driver already started)
\* fall through to "return self._page"
CcCall(t) ==
  /\ Begins(t)
  /\ mgr[t].made
  /\ IF HasOpenPage(mgr[t])
     THEN /\ Done(t, Result("connect_to_chrome", "page", mgr[t].page))
          /\ UNCHANGED <<mgr, ops>>
     ELSE IF mgr[t].playwright
     THEN /\ Done(t, Result("connect_to_chrome", IF mgr[t].page = None THEN "None" ELSE "page", mgr[t].page))
          /\ UNCHANGED <<mgr, ops>>
     ELSE /\ mgr' = [mgr EXCEPT ![t].playwright = TRUE]
          /\ ops' = ops \cup {"own"}
          /\ pc' = [pc EXCEPT ![t] = "cc_attach"]
          /\ UNCHANGED <<loc, res>>
  /\ UNCHANGED <<browserVars, gIndex, gUrl, launchLock, allManagers, connCount, created, appends, managersLock, refVars>>

\* lines 81-110: connect_over_cdp and the choice of the page
CcAttach(t) ==
  /\ pc[t] = "cc_attach"
  /\ ops' = ops \cup {"own"}
  /\ IF chrome = None
     THEN /\ Done(t, ResultA("connect_to_chrome", "ConnectionError", None, loc[t].attempts + 1))
          /\ UNCHANGED <<mgr, ctxs, url, nextTab>>
     ELSE LET b == chrome
              c == <<b, 1>>
              m == [mgr[t] EXCEPT !.browser = b, !.cdp = TRUE, !.context = c, !.owns = FALSE]
          IN  IF CtxPages(c) # <<>>
              THEN /\ mgr' = [mgr EXCEPT ![t] = [m EXCEPT !.page = CtxPages(c)[1]]]
                   /\ Done(t, ResultA("connect_to_chrome", "page", CtxPages(c)[1], loc[t].attempts + 1))
                   /\ UNCHANGED <<ctxs, url, nextTab>>
              ELSE /\ CanOpen
                   /\ ctxs' = OpenedCtxs(c)
                   /\ url' = OpenedUrls
                   /\ nextTab' = nextTab + 1
                   /\ mgr' = [mgr EXCEPT ![t] = [m EXCEPT !.page = nextTab]]
                   /\ Done(t, ResultA("connect_to_chrome", "page", nextTab, loc[t].attempts + 1))
  /\ UNCHANGED <<chrome, gens, frontTab, gIndex, gUrl, launchLock, allManagers, connCount, created, appends, managersLock, calls, refVars>>

\* ---------------------------------------------------------------- connect
\* lines 124-131
CCall(t) ==
  /\ Begins(t)
  /\ mgr[t].made
  /\ IF HasOpenPage(mgr[t])
     THEN /\ Done(t, Result("connect", "page", mgr[t].page))
          /\ UNCHANGED <<mgr, ops>>
     ELSE IF mgr[t].playwright
     THEN /\ Done(t, Result("connect", IF mgr[t].page = None THEN "None" ELSE "page", mgr[t].page))
          /\ UNCHANGED <<mgr, ops>>
     ELSE /\ mgr' = [mgr EXCEPT ![t].playwright = TRUE]
          /\ ops' = ops \cup {"own"}
          /\ pc' = [pc EXCEPT ![t] = "c_launch"]
          /\ UNCHANGED <<loc, res>>
  /\ UNCHANGED <<browserVars, gIndex, gUrl, launchLock, allManagers, connCount, created, appends, managersLock, refVars>>

\* lines 133-177: chromium.launch, new_context, new_page
CLaunch(t) ==
  /\ pc[t] = "c_launch"
  /\ IF ~mgr[t].playwright
     THEN /\ Done(t, Result("connect", "Error", None))
          /\ UNCHANGED <<mgr, ctxs, url, nextTab, ops>>
     ELSE /\ CanOpen
          /\ ctxs' = [ctxs EXCEPT ![0 - t] = << <<nextTab>> >>]
          /\ url' = OpenedUrls
          /\ nextTab' = nextTab + 1
          /\ mgr' = [mgr EXCEPT ![t].browser = 0 - t, ![t].context = <<0 - t, 1>>, ![t].owns = FALSE, ![t].page = nextTab]
          /\ ops' = ops \cup {"own"}
          /\ Done(t, Result("connect", "page", nextTab))
  /\ UNCHANGED <<chrome, gens, frontTab, gIndex, gUrl, launchLock, allManagers, connCount, created, appends, managersLock, calls, refVars>>

\* ---------------------------------------------------------------- connect_persistent
\* lines 190-194
CpCall(t) ==
  /\ Begins(t)
  /\ mgr[t].made
  /\ IF HasOpenPage(mgr[t])
     THEN /\ Done(t, Result("connect_persistent", "page", mgr[t].page))
          /\ UNCHANGED <<mgr, ops>>
     ELSE /\ mgr' = [mgr EXCEPT ![t].playwright = TRUE]
          /\ ops' = ops \cup {"own"}
          /\ pc' = [pc EXCEPT ![t] = "cp_attach"]
          /\ UNCHANGED <<loc, res>>
  /\ UNCHANGED <<browserVars, gIndex, gUrl, launchLock, allManagers, connCount, created, appends, managersLock, refVars>>

\* the page the attach branch selects among the tabs of all contexts
CpTarget(pages) == IF 0 <= gIndex /\ gIndex < Len(pages) THEN pages[gIndex + 1] ELSE pages[1]

\* lines 196-219: the attach attempt; any exception leads to the launch
CpAttach(t) ==
  /\ pc[t] = "cp_attach"
  /\ IF mgr[t].playwright /\ chrome # None /\ ctxs[chrome] # <<>>
     THEN LET c == <<chrome, 1>>
              m == [mgr[t] EXCEPT !.context = c, !.owns = FALSE]
          IN  /\ ops' = ops \cup {"own"}
              /\ IF AllPagesOf(chrome) # <<>>
                 THEN /\ mgr' = [mgr EXCEPT ![t] = [m EXCEPT !.page = CpTarget(AllPagesOf(chrome))]]
                      /\ Done(t, ResultA("connect_persistent", "page", CpTarget(AllPagesOf(chrome)), loc[t].attempts + 1))
                      /\ UNCHANGED <<ctxs, url, nextTab>>
                 ELSE /\ CanOpen
                      /\ ctxs' = OpenedCtxs(c)
                      /\ url' = OpenedUrls
                      /\ nextTab' = nextTab + 1
                      /\ mgr' = [mgr EXCEPT ![t] = [m EXCEPT !.page = nextTab]]
                      /\ Done(t, ResultA("connect_persistent", "page", nextTab, loc[t].attempts + 1))
     ELSE /\ pc' = [pc EXCEPT ![t] = "cp_launch"]
          /\ loc' = [loc EXCEPT ![t].attempts = @ + (IF mgr[t].playwright THEN 1 ELSE 0)]
          /\ ops' = ops \cup {"own"}
          /\ UNCHANGED <<mgr, ctxs, url, nextTab, res>>
  /\ UNCHANGED <<chrome, gens, frontTab, gIndex, gUrl, launchLock, allManagers, connCount, created, appends, managersLock, calls, refVars>>

\* lines 221-264: launch_persistent_context on the profile directory with
\* --remote-debugging-port=9222.  A Chrome that already listens there holds the profile
\* and the port, and the launch raises.
CpLaunch(t) ==
  /\ pc[t] = "cp_launch"
  /\ IF ~mgr[t].playwright \/ chrome # None
     THEN /\ Done(t, ResultA("connect_persistent", "Error", None, loc[t].attempts))
          /\ UNCHANGED <<mgr, chrome, gens, ctxs, url, nextTab, frontTab, ops>>
     ELSE /\ CanOpen
          /\ gens < MaxGen
          /\ chrome' = gens + 1
          /\ gens' = gens + 1
          /\ ctxs' = [ctxs EXCEPT ![gens + 1] = << <<nextTab>> >>]
          /\ url' = OpenedUrls
          /\ nextTab' = nextTab + 1
          /\ frontTab' = nextTab
          /\ mgr' = [mgr EXCEPT ![t].context = <<gens + 1, 1>>, ![t].owns = TRUE, ![t].page = nextTab]
          /\ ops' = ops \cup {"own"}
          /\ Done(t, ResultA("connect_persistent", "page", nextTab, loc[t].attempts))
  /\ UNCHANGED <<gIndex, gUrl, launchLock, allManagers, connCount, created, appends, managersLock, calls, refVars>>

\* ---------------------------------------------------------------- get_page
\* a sync that falls back to the first open tab when no tab has the descriptor's URL
SyncedPage_fallback(m) ==
  IF m.cdp /\ m.browser # None /\ gUrl # "" /\ (m.page = None \/ url[m.page] # gUrl)
  THEN IF FirstWithUrl(get_all_pages(m), gUrl) # None THEN FirstWithUrl(get_all_pages(m), gUrl)
       ELSE IF get_all_pages(m) # <<>> THEN get_all_pages(m)[1] ELSE m.page
  ELSE m.page

\* lines 376-388: the local handle after the sync with the descriptor's URL
SyncedPage(m) ==
  IF m.cdp /\ m.browser # None /\ gUrl # "" /\ (m.page = None \/ url[m.page] # gUrl) /\ FirstWithUrl(get_all_pages(m), gUrl) # None
  THEN FirstWithUrl(get_all_pages(m), gUrl)
  ELSE m.page

\* lines 390-392
OpenOrNone(p) == IF p # None /\ ~IsClosed(p) THEN p ELSE None

GetPage(t) ==
  /\ Begins(t)
  /\ mgr[t].made
  /\ mgr' = [mgr EXCEPT ![t].page = SyncedPage(mgr[t])]
  /\ res' = [res EXCEPT ![t] = Result("get_page", "ok", OpenOrNone(SyncedPage(mgr[t])))]
  /\ UNCHANGED <<browserVars, gIndex, gUrl, launchLock, allManagers, connCount, created, appends, managersLock, pc, loc, ops, refVars>>

\* ---------------------------------------------------------------- tab tools
IndexInputs == (0 - MaxTabs - 1)..MaxTabs

\* switch_to_tab: if index < 0: index = len(pages) + index
Normalised(index, n) == IF index < 0 THEN n + index ELSE index

\* switch_to_tab up to set_page's write of the URL (tools lines 1007-1020, manager 402-409)
SwCall(t, index) ==
  /\ Begins(t)
  /\ mgr[t].made
  /\ LET pages == get_all_pages(mgr[t])
         i == Normalised(index, Len(pages))
     IN  IF i < 0 \/ i >= Len(pages)
         THEN /\ Done(t, Result("switch_to_tab", "invalid", None))
              /\ UNCHANGED <<mgr, gUrl>>
         ELSE /\ mgr' = [mgr EXCEPT ![t].page = pages[i + 1]]
              /\ gUrl' = SetPageUrl(mgr[t], pages[i + 1], url)
              /\ loc' = [loc EXCEPT ![t] = [NoLoc EXCEPT !.target = pages[i + 1], !.wrote = (mgr[t].browser # None /\ mgr[t].cdp)]]
              /\ pc' = [pc EXCEPT ![t] = IF mgr[t].browser # None /\ mgr[t].cdp THEN "sw_index" ELSE "sw_front"]
              /\ UNCHANGED res
  /\ UNCHANGED <<browserVars, gIndex, launchLock, allManagers, connCount, created, appends, managersLock, ops, refVars>>

\* set_page's enumeration of the tabs and write of the index (manager lines 411-418)
SwIndex(t) ==
  /\ pc[t] = "sw_index"
  /\ gIndex' = SetPageIndex(mgr[t], loc[t].target, AllPagesOf(mgr[t].browser))
  /\ pc' = [pc EXCEPT ![t] = "sw_front"]
  /\ ops' = ops \cup {"own"}
  /\ UNCHANGED <<browserVars, mgr, gUrl, launchLock, allManagers, connCount, created, appends, managersLock, loc, res, calls, refVars>>

\* target.bring_to_front() and the return (tools lines 1021-1025)
SwFront(t) ==
  /\ pc[t] = "sw_front"
  /\ ops' = ops \cup {"own"}
  /\ IF IsClosed(loc[t].target)
     THEN /\ Done(t, Result("switch_to_tab", "failed", loc[t].target))
          /\ UNCHANGED frontTab
     ELSE /\ frontTab' = loc[t].target
          /\ Done(t, Result("switch_to_tab", "switched", loc[t].target))
  /\ UNCHANGED <<chrome, gens, ctxs, url, nextTab, sessionVars, calls, refVars>>

\* navigate_to_url on a session whose ensure_browser_connected finds a page
NavigateToUrl(t, u) ==
  /\ Begins(t)
  /\ mgr[t].made
  /\ OpenOrNone(SyncedPage(mgr[t])) # None
  /\ mgr' = [mgr EXCEPT ![t].page = SyncedPage(mgr[t])]
  /\ url' = [url EXCEPT ![SyncedPage(mgr[t])] = u]
  /\ res' = [res EXCEPT ![t] = Result("navigate_to_url", "ok", SyncedPage(mgr[t]))]
  /\ ops' = ops \cup {"own"}
  /\ UNCHANGED <<chrome, gens, ctxs, nextTab, frontTab, gIndex, gUrl, launchLock, allManagers, connCount, created, appends, managersLock, pc, loc, refVars>>

\* the contexts after tab p was closed
WithoutTab(p) == [b \in BrowserIds |-> [i \in 1..Len(ctxs[b]) |-> SelectSeq(ctxs[b][i], LAMBDA x : x # p)]]

\* close_page: self._page = pages[0] if pages else None
AfterClose(m, cx) == IF PagesIn(cx, m) # <<>> THEN PagesIn(cx, m)[1] ELSE None

\* close_current_tab (tools lines 1031-1040) with get_page and close_page (manager 496-506)
CloseCurrentTab(t) ==
  /\ Begins(t)
  /\ mgr[t].made
  /\ IF Len(get_all_pages(mgr[t])) <= 1
     THEN /\ res' = [res EXCEPT ![t] = Result("close_current_tab", "last", None)]
          /\ UNCHANGED <<mgr, ctxs, ops>>
     ELSE LET p == OpenOrNone(SyncedPage(mgr[t]))
              cx == IF p # None THEN WithoutTab(p) ELSE ctxs
          IN  /\ ctxs' = cx
              /\ mgr' = [mgr EXCEPT ![t].page = AfterClose(mgr[t], cx)]
              /\ res' = [res EXCEPT ![t] = Result("close_current_tab", "closed", p)]
              /\ ops' = ops \cup {"own"}
  /\ UNCHANGED <<chrome, gens, url, nextTab, frontTab, gIndex, gUrl, launchLock, allManagers, connCount, created, appends, managersLock, pc, loc, refVars>>

\* new_page(url) on a session that has a context (manager lines 480-487)
NewPage(t, u) ==
  /\ Begins(t)
  /\ mgr[t].made
  /\ mgr[t].context # NoCtx
  /\ ops' = ops \cup {"own"}
  /\ IF mgr[t].context[2] > Len(ctxs[mgr[t].context[1]])
     THEN /\ res' = [res EXCEPT ![t] = Result("new_page", "Error", None)]
          /\ UNCHANGED <<mgr, ctxs, url, nextTab>>
     ELSE /\ CanOpen
          /\ ctxs' = OpenedCtxs(mgr[t].context)
          /\ url' = [url EXCEPT ![nextTab] = u]
          /\ nextTab' = nextTab + 1
          /\ mgr' = [mgr EXCEPT ![t].page = nextTab]
          /\ res' = [res EXCEPT ![t] = Result("new_page", "page", nextTab)]
  /\ UNCHANGED <<chrome, gens, frontTab, gIndex, gUrl, launchLock, allManagers, connCount, created, appends, managersLock, pc, loc, refVars>>

\* ---------------------------------------------------------------- element refs
\* the tokens 'ref_' + (++window.__refCounter) minted for n elements in a row
Minted(c, n) == [i \in 1..n |-> RefTok(c + i)]

\* the keys scan_page_elements hands out for n elements: counter starts at -1, counter++
ScanKeys(n) == [i \in 1..n |-> IdxTok(i - 1)]

Handed(toks) == [k \in Tokens |-> IF k \in Range(toks) /\ issued[k] < IssueCap THEN issued[k] + 1 ELSE issued[k]]

\* the text a full scan returns: one entry per element, each with its token
Scanned(tool, toks) == [NoOut EXCEPT !.tool = tool, !.text = "Scanned", !.refs = toks]

\* get_page_elements: one full scan of the page (tools lines 441-575)
GetPageElements ==
  /\ refCounter + dom.n <= MaxRef
  /\ refCounter' = refCounter + dom.n
  /\ elementMap' = elementMap \cup Range(Minted(refCounter, dom.n))
  /\ ELEMENT_MAP' = Range(Minted(refCounter, dom.n))
  /\ issued' = Handed(Minted(refCounter, dom.n))
  /\ lastScan' = Minted(refCounter, dom.n)
  /\ scanBy' = "get_page_elements"
  /\ toolOut' = Scanned("get_page_elements", Minted(refCounter, dom.n))
  /\ UNCHANGED <<dom, gone, batch, extraction, browserVars, sessionVars, threadVars>>

\* scan_page_elements: one full scan of the page (accessibility_scanner lines 17-170)
ScanPageElements ==
  /\ ELEMENT_MAP' = Range(ScanKeys(dom.n))
  /\ issued' = Handed(ScanKeys(dom.n))
  /\ lastScan' = ScanKeys(dom.n)
  /\ scanBy' = "scan_page_elements"
  /\ toolOut' = Scanned("scan_page_elements", ScanKeys(dom.n))
  /\ UNCHANGED <<dom, refCounter, elementMap, gone, batch, extraction, browserVars, sessionVars, threadVars>>

\* what the click left focused: nothing of interest, a text input or a checkbox
Focus == {"none", "input", "checkbox"}

\* overlay_diff = after_state['overlayCount'] - before_state['overlayCount'] (line 305): the
\* 'before' query has no [class*="filter"], the 'after' query has it
OverlayDiff(d) == (d.ovl + d.flt) - dom.ovl

\* the retry enumeration runs (lines 306-354)
Retries(d) == OverlayDiff(d) > 0 /\ d.kids = 0

\* refs minted by the 'after' snapshot and by the retry
MintedByClick(d) == d.kids + (IF Retries(d) THEN d.kidsRetry ELSE 0)

\* popup_elements, the refs the summary lists (lines 307, 354, 362-374)
PopupRefs(d) == IF OverlayDiff(d) > 0 THEN Minted(refCounter, MintedByClick(d)) ELSE <<>>

\* the list "changes" (lines 277-381)
Changes(d, f, nav) ==
  (IF nav THEN {"URL CHANGED"} ELSE {})
  \cup (IF f = "checkbox" THEN {"Checkbox is now"} ELSE IF f = "input" THEN {"Input focused"} ELSE {})
  \cup (IF OverlayDiff(d) > 0 THEN {"POPUP"} \cup (IF PopupRefs(d) # <<>> THEN {"ELEMENTS"} ELSE {"No elements detected"})
        ELSE IF OverlayDiff(d) < 0 THEN {"Popup closed"} ELSE {})
  \cup (IF dom.ovl > 0 /\ d.ovl + d.flt = 0 /\ nav THEN {"Filter applied"} ELSE {})

\* a summary that says nothing when nothing changed
Summary_silent(ch) == ch

\* lines 383-389: the summary names the changes or says that there was none
Summary(ch) == IF ch # {} THEN ch ELSE {"No visible UI change"}

\* the in-page resolver (browser_scripts/element_ref_script.js): it looks the ref up in
\* window.__elementMap and dereferences the weak handle
Resolves(r) == r \in elementMap /\ r \notin gone

\* what the resolver reports for ref r
Report(r) == IF Resolves(r) THEN "ok" ELSE IF r \in elementMap THEN "gone" ELSE "unknown"

\* a scroll by the whole viewport height
ScrollAmount_full(y, vh) == y - vh

\* scroll_amount = y - (vh // 2), lines 173 and 180
ScrollAmount(y, vh) == y - (vh \div 2)

\* lines 172-188: the y the click uses for a requested y in a viewport of height vh
CorrectedY(y, vh) ==
  LET scroll_amount == ScrollAmount(y, vh)
      scrolled == IF y < 0 \/ y > vh THEN y - scroll_amount ELSE y
  IN  IF ~(0 <= scrolled /\ scrolled <= vh)
      THEN (IF (IF scrolled < vh - 1 THEN scrolled ELSE vh - 1) > 1 THEN (IF scrolled < vh - 1 THEN scrolled ELSE vh - 1) ELSE 1)
      ELSE scrolled

\* pointer events of a click at requested height reqY: the wheel when it scrolls, the move, the click
ClickEvents(reqY, vh) == (IF reqY < 0 \/ reqY > vh THEN <<"wheel">> ELSE <<>>) \o <<"move", "click">>

\* a click that toggles a focused checkbox once more
AfterEvents_retoggle(d, f) == IF f = "checkbox" THEN <<"click">> ELSE <<>>

\* input events issued after the click, lines 205-381: the checkbox branch (282-299) and
\* the retry (310-355) only evaluate scripts in the page
AfterEvents(d, f) == <<>>

\* the result of a click that ran to its end, for requested height reqY in a viewport of
\* height vh; retries: the number of retry enumerations it ran; scroll: the delta of the
\* wheel event (page.mouse.wheel(0, scroll_amount), lines 175 and 182), 0 without one
Clicked(r, d, f, nav, reqY, vh) ==
  [tool |-> "click_at", text |-> "Clicked", changes |-> Summary(Changes(d, f, nav)), url |-> TRUE,
   events |-> ClickEvents(reqY, vh) \o AfterEvents(d, f), retries |-> IF Retries(d) THEN 1 ELSE 0,
   scroll |-> IF reqY < 0 \/ reqY > vh THEN ScrollAmount(reqY, vh) ELSE 0,
   reqY |-> reqY, vh |-> vh, y |-> CorrectedY(reqY, vh), delta |-> OverlayDiff(d), refs |-> PopupRefs(d),
   ref |-> r, resolved |-> IF r = NoRef THEN "n/a" ELSE Report(r)]

\* _click_at_impl from the 'before' snapshot on (lines 190-389): the page reacts to the
\* click with d, the 'after' snapshot mints a ref for every accepted overlay descendant,
\* and the retry mints again when the overlay count grew and the first enumeration was empty
ClickPage(d) ==
  /\ d \in DomStates
  /\ refCounter + MintedByClick(d) <= MaxRef
  /\ refCounter' = refCounter + MintedByClick(d)
  /\ elementMap' = elementMap \cup Range(Minted(refCounter, MintedByClick(d)))
  /\ issued' = Handed(Minted(refCounter, MintedByClick(d)))
  /\ lastScan' = Minted(refCounter, MintedByClick(d))
  /\ dom' = d
  /\ scanBy' = "none"
  /\ UNCHANGED <<ELEMENT_MAP, gone, browserVars, sessionVars, threadVars>>

\* _click_at_impl called as a tool: the click and the text it returns
ClickBody(r, d, f, nav, reqY, vh) ==
  /\ ClickPage(d)
  /\ toolOut' = Clicked(r, d, f, nav, reqY, vh)
  /\ UNCHANGED <<batch, extraction>>

\* click_at(x, y) at a height inside the viewport, on a page whose URL and focus stay
ClickAt(d) == ClickBody(NoRef, d, "none", FALSE, 1, 2)

\* the page changes by itself (rendering, scripts)
DomChanges(d) ==
  /\ d \in DomStates
  /\ d # dom
  /\ dom' = d
  /\ scanBy' = "none"
  /\ UNCHANGED <<refCounter, elementMap, ELEMENT_MAP, issued, lastScan, gone, toolOut, batch, extraction, browserVars, sessionVars, threadVars>>

\* a navigation replaces the window: a new page lifetime starts
PageNavigates(d) ==
  /\ d \in DomStates
  /\ d.ovl + d.flt = 0
  /\ dom' = d
  /\ refCounter' = 0
  /\ elementMap' = {}
  /\ issued' = [k \in Tokens |-> 0]
  /\ lastScan' = <<>>
  /\ gone' = {}
  /\ scanBy' = "none"
  /\ UNCHANGED <<ELEMENT_MAP, toolOut, batch, extraction, browserVars, sessionVars, threadVars>>

\* ---------------------------------------------------------------- calls by ref
\* a node the page held is removed (and collected): the weak handle of its refs is dead
NodeRemoved(r) ==
  /\ r \in elementMap \ gone
  /\ gone' = gone \cup {r}
  /\ scanBy' = "none"
  /\ UNCHANGED <<dom, refCounter, elementMap, ELEMENT_MAP, issued, lastScan, toolOut, batch, extraction, browserVars, sessionVars, threadVars>>

\* a call that returned text without touching the page
Returned(tool, text, r, rep) == [NoOut EXCEPT !.tool = tool, !.text = text, !.ref = r, !.resolved = rep]

\* the call leaves the page and the ref tables as they are
ReturnsOnly(o) ==
  /\ toolOut' = o
  /\ UNCHANGED <<dom, refCounter, elementMap, ELEMENT_MAP, issued, lastScan, gone, scanBy, batch, extraction, browserVars, sessionVars, threadVars>>

\* heights a caller asks for, in viewports of the heights the model tries
MaxVh == 8
Vhs == 2..MaxVh
Ys == (0 - MaxVh)..(2 * MaxVh)

\* the reactions of the page to a click that the click specifications try: overlays open
\* and close, the elements a full scan emits stay
Reactions == {d \in DomStates : d.n = dom.n /\ d.kidsRetry <= 1}

\* the tokens a caller can pass as a ref
RefToks == {RefTok(k) : k \in 1..MaxRef}

\* a click by ref that goes on whatever the resolver reported
ClickByRefFails_unchecked(r, script) ==
  /\ ~script \/ Report(r) # "ok"
  /\ IF ~script THEN ReturnsOnly(Returned("click_at", "Internal Error", r, "no script"))
     ELSE ClickBody(r, dom, "none", FALSE, 1, 2)

\* _click_at_impl(ref=r), lines 146-162, when the ref does not resolve: script tells whether
\* browser_scripts/element_ref_script.js can be read
ClickByRefFails(r, script) ==
  /\ ~script \/ Report(r) # "ok"
  /\ IF ~script THEN ReturnsOnly(Returned("click_at", "Internal Error", r, "no script"))
     ELSE ReturnsOnly(Returned("click_at", "Failed to resolve", r, Report(r)))

\* _click_at_impl(ref=r) when the ref resolves (lines 153-156) to a point inside the
\* viewport, and then the body
ClickByRefOk(r, d, f, nav) ==
  /\ Report(r) = "ok"
  /\ ClickBody(r, d, f, nav, 1, 2)

\* _click_at_impl(x, y) with y (or x) left out, lines 164-165
ClickNoCoords == ReturnsOnly(Returned("click_at", "Error", NoRef, "n/a"))

\* _click_at_impl(x, y): requested height y in a viewport of height vh, on a page the click
\* does not change
ClickY(y, vh) == ClickBody(NoRef, dom, "none", FALSE, y, vh)

\* _click_at_impl(x, y) at a height inside the viewport
ClickCoords(d, f, nav) == ClickBody(NoRef, d, f, nav, 1, 2)

\* _click_at_impl, lines 390-391: a driver call raised, before the click (ev = 0) or after
\* it (ev = 2), and the page reacted with d in the latter case
ClickRaises(ev, d) ==
  /\ toolOut' = [Returned("click_at", "Click failed", NoRef, "n/a") EXCEPT !.events = IF ev = 0 THEN <<>> ELSE <<"move", "click">>]
  /\ dom' = IF ev = 0 THEN dom ELSE d
  /\ scanBy' = "none"
  /\ UNCHANGED <<refCounter, elementMap, ELEMENT_MAP, issued, lastScan, gone, batch, extraction, browserVars, sessionVars, threadVars>>

\* get_element_by_ref(r), lines 1143-1169
GetElementByRef(r, script) ==
  IF ~script THEN ReturnsOnly(Returned("get_element_by_ref", "Script file not found", r, "no script"))
  ELSE IF Report(r) # "ok" THEN ReturnsOnly(Returned("get_element_by_ref", "Element not found", r, Report(r)))
  ELSE ReturnsOnly(Returned("get_element_by_ref", "Found", r, "ok"))

\* the kinds of field _form_input_impl tells apart: a text-like input and a textarea are
\* typed into, every other field is set by browser_scripts/form_input_script.js
FieldKinds == {"text", "textarea", "other"}

\* _form_input_impl(r, value), lines 1203-1269: script2 tells whether form_input_script.js
\* can be read, set whether it reports success
FormInput(r, script, kind, script2, set) ==
  IF ~script THEN ReturnsOnly(Returned("form_input", "Script file not found", r, "no script"))
  ELSE IF Report(r) # "ok" THEN ReturnsOnly(Returned("form_input", "Failed to find element", r, Report(r)))
  ELSE IF kind \in {"text", "textarea"}
       THEN /\ toolOut' = [Returned("form_input", "Set", r, "ok") EXCEPT !.events = <<"click", "click3", "type">>]
            /\ scanBy' = "none"
            /\ UNCHANGED <<dom, refCounter, elementMap, ELEMENT_MAP, issued, lastScan, gone, batch, extraction, browserVars, sessionVars, threadVars>>
       ELSE IF ~script2 THEN ReturnsOnly(Returned("form_input", "Script file not found", r, "ok"))
       ELSE IF ~set THEN ReturnsOnly(Returned("form_input", "Failed to set form value", r, "ok"))
       ELSE /\ toolOut' = Returned("form_input", "Set", r, "ok")
            /\ scanBy' = "none"
            /\ UNCHANGED <<dom, refCounter, elementMap, ELEMENT_MAP, issued, lastScan, gone, batch, extraction, browserVars, sessionVars, threadVars>>

\* ---------------------------------------------------------------- waits and keys
WaitLimit == 30
BatchWaitCap == 10
MaxWait == 31
MaxKeys == 2

\* wait_seconds(duration), lines 116-125
WaitSeconds(d) ==
  IF d < 0 \/ d > WaitLimit
  THEN ReturnsOnly([Returned("wait_seconds", "Duration must be 0-30 seconds", NoRef, "n/a") EXCEPT !.asked = d])
  ELSE ReturnsOnly([Returned("wait_seconds", "Waited", NoRef, "n/a") EXCEPT !.asked = d, !.slept = d])

\* the key names the model tries, and key.lower() on them
KeyNames == {"ctrl", "CTRL", "Enter", "a"}
Lower(key) == IF key = "CTRL" THEN "ctrl" ELSE IF key = "Enter" THEN "enter" ELSE key

\* lines 23-32
KEY_MAP ==
  [k \in {"ctrl", "control", "cmd", "command", "meta", "alt", "option", "shift", "enter", "return", "tab", "delete",
          "backspace", "escape", "esc", "space", "up", "down", "left", "right"} |->
     CASE k \in {"ctrl", "control"} -> "Control"
       [] k \in {"cmd", "command", "meta"} -> "Meta"
       [] k \in {"alt", "option"} -> "Alt"
       [] k = "shift" -> "Shift"
       [] k \in {"enter", "return"} -> "Enter"
       [] k = "tab" -> "Tab"
       [] k = "delete" -> "Delete"
       [] k = "backspace" -> "Backspace"
       [] k \in {"escape", "esc"} -> "Escape"
       [] k = "space" -> " "
       [] k = "up" -> "ArrowUp"
       [] k = "down" -> "ArrowDown"
       [] k = "left" -> "ArrowLeft"
       [] k = "right" -> "ArrowRight"]

\* _map_key(key): KEY_MAP.get(key.lower(), key)
MapKey(key) == IF Lower(key) \in DOMAIN KEY_MAP THEN KEY_MAP[Lower(key)] ELSE key

\* press_key(key), lines 752-767, for the expression keys[1]+keys[2]+...; raises tells
\* whether keyboard.press raised
PressKey(keys, raises) ==
  IF raises THEN ReturnsOnly(Returned("press_key", "Key press failed", NoRef, "n/a"))
  ELSE /\ toolOut' = [Returned("press_key", "Pressed", NoRef, "n/a") EXCEPT !.sent = [k \in 1..Len(keys) |-> MapKey(keys[k])]]
       /\ scanBy' = "none"
       /\ UNCHANGED <<dom, refCounter, elementMap, ELEMENT_MAP, issued, lastScan, gone, batch, extraction, browserVars, sessionVars, threadVars>>

\* ---------------------------------------------------------------- extract_jobs
JobsPerPage == 50
MaxListings == 2
MaxExtracts == 2

\* the listings a page can show: the text of the title and the jk= id of the link ("" when
\* the link has none); "DevX" stands for a text of more than 80 characters that starts
\* with the 80 characters "Dev" stands for
Listings == {[text |-> "Dev", id |-> ""], [text |-> "Dev", id |-> "j1"], [text |-> "Ops", id |-> "j1"],
             [text |-> "Ops", id |-> "j2"], [text |-> "DevX", id |-> ""]}

\* text.slice(0, 80)
Slice80(text) == IF text = "DevX" THEN "Dev" ELSE text

\* the in-page script, lines 651-677: one job per listing whose text was not seen before,
\* in document order, the first 50 of them
Scraped(pg) ==
  LET first == SelectSeq([k \in 1..Len(pg) |-> k], LAMBDA k : \A j \in 1..(k - 1) : pg[j].text # pg[k].text)
      jobs == [i \in 1..Len(first) |-> [title |-> Slice80(pg[first[i]].text), id |-> pg[first[i]].id]]
  IN  SubSeq(jobs, 1, IF Len(jobs) < JobsPerPage THEN Len(jobs) ELSE JobsPerPage)

\* j.get('id') or j['title']
JobKey(j) == IF j.id # "" THEN j.id ELSE j.title

\* an extraction that does not look at the keys the session holds
NewJobs_all(old, jobs) == jobs

\* lines 707-708: the jobs whose key the session does not hold yet
NewJobs(old, jobs) == SelectSeq(jobs, LAMBDA j : JobKey(j) \notin {JobKey(o) : o \in Range(old)})

\* extract_jobs on a page that shows the listings pg; fails tells whether writing the file
\* raised.  The text reports delta new jobs; shown is what the script returned.
ExtractJobs(pg, fails) ==
  /\ extraction.pages < MaxExtracts
  /\ IF Scraped(pg) = <<>>
     THEN ReturnsOnly(Returned("extract_jobs", "No job listings found", NoRef, "n/a"))
     ELSE /\ extraction' = [file |-> TRUE,
                            jobs |-> extraction.jobs \o NewJobs(extraction.jobs, Scraped(pg)),
                            pages |-> extraction.pages + 1,
                            saved |-> IF fails THEN extraction.saved ELSE extraction.jobs \o NewJobs(extraction.jobs, Scraped(pg))]
          /\ toolOut' = [Returned("extract_jobs", IF fails THEN "Job extraction failed" ELSE "Page", NoRef, "n/a")
                           EXCEPT !.shown = Scraped(pg), !.delta = Len(NewJobs(extraction.jobs, Scraped(pg)))]
          /\ UNCHANGED <<dom, refCounter, elementMap, ELEMENT_MAP, issued, lastScan, gone, scanBy, batch, browserVars, sessionVars, threadVars>>

\* ---------------------------------------------------------------- the text of a scan
OutputCap == 50
MaxScan == 52
MaxDepth == 2
MaxKids == 2

\* the lines of output.join('\n').split('\n') for a scan of n entries of which the p-th
\* (if p > 0) has a text with one line break: <<k, q, m>> is line q of the m lines of entry k
FormattedElements(n, p) ==
  LET RECURSIVE From(_)
      From(k) == IF k > n THEN <<>>
                 ELSE (IF k = p THEN << <<k, 1, 2>>, <<k, 2, 2>> >> ELSE << <<k, 1, 1>> >>) \o From(k + 1)
  IN  From(1)

\* get_page_elements, lines 577-592: the text it returns for such a scan; asked is the
\* number of entries of the scan, delta the number of refs the map holds
GetPageElementsText(n, p) ==
  LET lines == FormattedElements(n, p)
  IN  ReturnsOnly([Returned("get_page_elements", IF Len(lines) > OutputCap THEN "Found" ELSE "Scanned", NoRef, "n/a")
                     EXCEPT !.asked = n, !.delta = n,
                            !.shown = IF Len(lines) > OutputCap THEN SubSeq(lines, 1, OutputCap) ELSE lines])

\* the element trees scan_page_elements walks, of height h at most: good tells whether the
\* node is visible and interesting, kids are its element children
RECURSIVE Trees(_)
Trees(h) ==
  IF h = 0 THEN {[good |-> g, kids |-> <<>>] : g \in BOOLEAN}
  ELSE {[good |-> g, kids |-> ks] : g \in BOOLEAN, ks \in UNION {[1..n -> Trees(h - 1)] : n \in 0..MaxKids}}

\* build(node, depth), lines 88-149: the entries it emits; path is the place of the node in
\* the tree, good the number of interesting children of the emitted node
RECURSIVE build(_, _, _)
build(node, depth, path) ==
  LET nextDepth == IF node.good /\ Len(node.kids) > 1 THEN depth + 1 ELSE depth
      RECURSIVE children(_)
      children(k) == IF k > Len(node.kids) THEN <<>>
                     ELSE build(node.kids[k], nextDepth, Append(path, k)) \o children(k + 1)
  IN  (IF node.good
       THEN <<[path |-> path, depth |-> depth, good |-> Cardinality({k \in 1..Len(node.kids) : node.kids[k].good})]>>
       ELSE <<>>) \o children(1)

\* scan_page_elements on a page whose body is tree
ScanTree(tree) == ReturnsOnly([Returned("scan_page_elements", "Scanned", NoRef, "n/a") EXCEPT !.shown = build(tree, 0, <<>>)])

\* ---------------------------------------------------------------- execute_action_sequence
MaxBatch == 3

\* a line of the batch: its verb (lower-cased), the number of parts line.split(None, 2)
\* gives, and what its second part is: a ref ("ref_..."), coordinates "x,y", a number, a
\* number above the 10 seconds a wait sleeps at most, a key, a direction, or another word;
\* the ref lines name ref_1.  secs is the number of a wait line, keys the key expression of
\* a press line, a sequence of key names for 'k1+k2+...'
Line(verb, parts, arg) ==
  [verb |-> verb, parts |-> parts, arg |-> arg,
   secs |-> IF arg = "num" THEN 2 ELSE IF arg = "big" THEN 100 ELSE 0,
   keys |-> IF arg = "key" THEN <<"Enter">> ELSE <<>>]
BlankLine == Line("", 0, "none")
BatchLines ==
  { BlankLine,
    Line("click", 2, "ref"), Line("fill", 3, "ref"), Line("fill", 2, "ref"),
    Line("click", 2, "coords"), Line("click", 2, "word"), Line("click", 1, "none"),
    Line("type", 3, "coords"), Line("press", 2, "key"),
    Line("wait", 2, "num"), Line("wait", 2, "big"),
    Line("scroll", 2, "down"), Line("scroll", 2, "word"),
    Line("jump", 2, "word") }

\* line 813: the stripped non-blank lines, in order
NonBlank(raw) == SelectSeq(raw, LAMBDA l : l # BlankLine)

\* the branch of the if-chain (lines 823-901) a line takes
Branch(l) ==
  IF l.verb = "click" /\ l.parts >= 2 /\ l.arg = "ref" THEN "click_ref"
  ELSE IF l.verb \in {"fill", "input", "set"} /\ l.parts >= 3 /\ l.arg = "ref" THEN "fill_ref"
  ELSE IF l.verb = "click" /\ l.parts >= 2 THEN "click_xy"
  ELSE IF l.verb = "type" /\ l.parts >= 3 THEN "type"
  ELSE IF l.verb = "press" /\ l.parts >= 2 THEN "press"
  ELSE IF l.verb = "wait" /\ l.parts >= 2 THEN "wait"
  ELSE IF l.verb = "scroll" /\ l.parts >= 2 THEN "scroll"
  ELSE "unknown"

\* an entry of results: mark is its prefix ("OK", "?" for unknown/invalid, "X" for the
\* error entry of the except clause), effect whether the command took effect
\* slept the seconds the line slept, sent the key string it sent (its '+'-separated parts)
Status(i, l, mark, text, effect) == [line |-> i, src |-> l, mark |-> mark, text |-> text, effect |-> effect, slept |-> 0, sent |-> <<>>]

\* the entry line l (the i-th) appends; raises tells whether a driver call of the line raised
StatusOf(i, l, raises) ==
  CASE Branch(l) = "click_ref" ->
         IF Report(RefTok(1)) = "ok" THEN Status(i, l, "OK", "Clicked", TRUE) ELSE Status(i, l, "OK", "Failed to resolve", FALSE)
    [] Branch(l) = "fill_ref" ->
         IF Report(RefTok(1)) = "ok" THEN Status(i, l, "OK", "Set", TRUE) ELSE Status(i, l, "OK", "Failed to find element", FALSE)
    [] Branch(l) \in {"click_xy", "type"} ->
         IF l.arg # "coords" \/ raises THEN Status(i, l, "X", "error", FALSE) ELSE Status(i, l, "OK", Branch(l), TRUE)
    [] Branch(l) = "press" ->
         IF raises THEN Status(i, l, "X", "error", FALSE)
         ELSE [Status(i, l, "OK", "press", TRUE) EXCEPT !.sent = IF Len(l.keys) = 1 THEN <<MapKey(l.keys[1])>> ELSE l.keys]
    [] Branch(l) = "wait" ->
         IF l.arg \notin {"num", "big"} \/ l.secs < 0 THEN Status(i, l, "X", "error", FALSE)
         ELSE [Status(i, l, "OK", "wait", l.secs <= BatchWaitCap) EXCEPT !.slept = IF l.secs < BatchWaitCap THEN l.secs ELSE BatchWaitCap]
    [] Branch(l) = "scroll" ->
         IF raises THEN Status(i, l, "X", "error", FALSE) ELSE Status(i, l, "OK", "scroll", l.arg \in {"down", "up"})
    [] OTHER -> Status(i, l, "?", "unknown/invalid", FALSE)

\* a loop that drops the entry of a line that raised
Appended_exceptOnError(results, e) == IF e.mark = "X" THEN results ELSE Append(results, e)

\* results.append(...), lines 826-904
Appended(results, e) == Append(results, e)

\* a loop that a raising line ends
AfterLine_stopOnError(i, e, n) == IF e.mark = "X" THEN n + 1 ELSE i + 1

\* the index the loop goes on with after line i: the try/except is inside the loop
AfterLine(i, e, n) == i + 1

\* execute_action_sequence(actions), lines 808-813: the browser is connected
BatchStart(raw) ==
  /\ batch.pc = "idle"
  /\ batch' = [pc |-> "running", raw |-> raw, lines |-> NonBlank(raw), i |-> 1, results |-> <<>>, ran |-> <<>>]
  /\ UNCHANGED <<dom, refCounter, elementMap, ELEMENT_MAP, issued, lastScan, gone, scanBy, toolOut, extraction, browserVars, sessionVars, threadVars>>

\* lines 808-809 and 907-908: ensure_browser_connected raised
BatchFailsToStart ==
  /\ batch.pc = "idle"
  /\ batch' = [NoBatch EXCEPT !.pc = "returned"]
  /\ toolOut' = Returned("execute_action_sequence", "Sequence failed", NoRef, "n/a")
  /\ UNCHANGED <<dom, refCounter, elementMap, ELEMENT_MAP, issued, lastScan, gone, scanBy, extraction, browserVars, sessionVars, threadVars>>

\* one turn of the loop, lines 815-904
BatchStep(raises) ==
  /\ batch.pc = "running"
  /\ batch.i <= Len(batch.lines)
  /\ LET l == batch.lines[batch.i]
         e == StatusOf(batch.i, l, raises)
     IN  /\ batch' = [batch EXCEPT !.results = Appended(batch.results, e),
                                   !.ran = Append(batch.ran, batch.i),
                                   !.i = AfterLine(batch.i, e, Len(batch.lines))]
         /\ IF e.text = "Clicked"
            THEN ClickPage(dom)
            ELSE /\ scanBy' = IF e.effect THEN "none" ELSE scanBy
                 /\ UNCHANGED <<dom, refCounter, elementMap, ELEMENT_MAP, issued, lastScan, gone, browserVars, sessionVars, threadVars>>
  /\ UNCHANGED <<toolOut, extraction>>

\* line 906: return "\n".join(results)
BatchReturn ==
  /\ batch.pc = "running"
  /\ batch.i > Len(batch.lines)
  /\ batch' = [batch EXCEPT !.pc = "returned"]
  /\ toolOut' = Returned("execute_action_sequence", "results", NoRef, "n/a")
  /\ UNCHANGED <<dom, refCounter, elementMap, ELEMENT_MAP, issued, lastScan, gone, scanBy, extraction, browserVars, sessionVars, threadVars>>

\* ---------------------------------------------------------------- specifications
RegistryStep(t) == GpmCall(t) \/ GpmStore(t) \/ GpmQuiet(t) \/ GpmAppend(t)
ConnectStep(t) == RcCall(t) \/ RcAcquire(t) \/ RcAttach(t) \/ CcCall(t) \/ CcAttach(t) \/ CCall(t) \/ CLaunch(t) \/ CpCall(t) \/ CpAttach(t) \/ CpLaunch(t)
TabStep(t) == GetPage(t) \/ (\E i \in IndexInputs : SwCall(t, i)) \/ SwIndex(t) \/ SwFront(t) \/ (\E u \in SiteUrls : NavigateToUrl(t, u)) \/ CloseCurrentTab(t) \/ (\E u \in Urls : NewPage(t, u))

\* a page without overlays that shows one element: the page of the specifications that
\* do not scan
InitNoScan == InitRefs /\ InitTools /\ dom = [n |-> 1, ovl |-> 0, flt |-> 0, kids |-> 0, kidsRetry |-> 0]

\* the thread-local registry and the shutdown cleanup, from process start
InitRegistry == (\E up \in BOOLEAN : InitBrowser(up, OneTab)) /\ InitThreads /\ InitGlobals /\ InitNoManagers /\ InitNoScan
NextRegistry == \E t \in Threads : RegistryStep(t) \/ RcCall(t) \/ RcAcquire(t) \/ RcAttach(t) \/ CCall(t) \/ CLaunch(t) \/ CleanupBegin(t) \/ CleanupAllManagers(t)
SpecRegistry == InitRegistry /\ [][NextRegistry]_vars

\* the four connect strategies, on threads that already hold a manager
InitConnect == (\E up \in BOOLEAN : InitBrowser(up, OneTab)) /\ InitThreads /\ InitGlobals /\ InitManagers /\ InitNoScan
NextConnect == \E t \in Threads : ConnectStep(t) \/ CleanupBegin(t) \/ CleanupAllManagers(t)
SpecConnect == InitConnect /\ [][NextConnect]_vars

\* sessions of every strategy and the tab tools
InitSync == InitBrowser(TRUE, ChromeLayouts) /\ InitThreads /\ InitGlobals /\ InitManagers /\ InitNoScan
InitTabs == (InitBrowser(TRUE, ChromeLayouts) \/ InitBrowser(FALSE, OneTab)) /\ InitThreads /\ InitGlobals /\ InitManagers /\ InitNoScan
NextTabs == \E t \in Threads : ConnectStep(t) \/ TabStep(t)
SpecTabs == InitTabs /\ [][NextTabs]_vars

\* sessions attached by connect_real_chrome and the tab tools, on a Chrome the user started
SyncStep(t) == RcCall(t) \/ RcAcquire(t) \/ RcAttach(t) \/ GetPage(t) \/ (\E i \in IndexInputs : SwCall(t, i)) \/ SwIndex(t) \/ SwFront(t) \/ (\E u \in SiteUrls : NavigateToUrl(t, u)) \/ CloseCurrentTab(t)
NextSync == \E t \in Threads : SyncStep(t)
SpecSync == InitSync /\ [][NextSync]_vars

\* scans and clicks on one page
InitScan == InitBrowser(FALSE, OneTab) /\ InitThreads /\ InitGlobals /\ InitNoManagers /\ InitRefs /\ InitTools
NextScan == GetPageElements \/ ScanPageElements \/ (\E d \in DomStates : ClickAt(d) \/ DomChanges(d) \/ PageNavigates(d))
SpecScan == InitScan /\ [][NextScan]_vars

\* clicks at every height, on a page that does not react
NextClamp == \E y \in Ys, vh \in Vhs : ClickY(y, vh)
SpecClamp == InitScan /\ [][NextClamp]_vars

\* full scans, removals of nodes, and the calls that take a ref
NextResolve ==
  \/ GetPageElements
  \/ \E r \in RefToks : NodeRemoved(r)
  \/ \E r \in RefToks, script \in BOOLEAN : ClickByRefFails(r, script)
  \/ \E r \in RefToks : ClickByRefOk(r, dom, "none", FALSE)
  \/ \E r \in RefToks, script \in BOOLEAN : GetElementByRef(r, script)
  \/ \E r \in RefToks, script \in BOOLEAN, kind \in FieldKinds, script2 \in BOOLEAN, set \in BOOLEAN : FormInput(r, script, kind, script2, set)
SpecResolve == InitScan /\ [][NextResolve]_vars

\* clicks, by coordinates and by the refs that clicks minted
NextClick ==
  \/ \E r \in RefToks, script \in BOOLEAN : ClickByRefFails(r, script)
  \/ \E r \in RefToks, d \in Reactions, f \in Focus, nav \in BOOLEAN : ClickByRefOk(r, d, f, nav)
  \/ ClickNoCoords
  \/ \E d \in Reactions, f \in Focus, nav \in BOOLEAN : ClickCoords(d, f, nav)
  \/ \E ev \in {0, 2}, d \in Reactions : ClickRaises(ev, d)
SpecClick == InitScan /\ [][NextClick]_vars

\* one batch, on a page of one element that was scanned or not before it
Batches == UNION {[1..n -> BatchLines] : n \in 0..MaxBatch}
InitBatch == InitBrowser(FALSE, OneTab) /\ InitThreads /\ InitGlobals /\ InitNoManagers /\ InitNoScan
NextBatch ==
  \/ batch.pc = "idle" /\ GetPageElements
  \/ batch.pc = "idle" /\ \E raw \in Batches : BatchStart(raw)
  \/ BatchFailsToStart
  \/ \E raises \in BOOLEAN : BatchStep(raises)
  \/ BatchReturn
SpecBatch == InitBatch /\ [][NextBatch]_vars

\* waits and key presses, as tools and as batches of one line
NextLine ==
  \/ \E d \in (0 - 1)..MaxWait : WaitSeconds(d)
  \/ \E n \in 1..MaxKeys : \E keys \in [1..n -> KeyNames], raises \in BOOLEAN : PressKey(keys, raises)
  \/ batch.pc = "idle" /\ \E d \in (0 - 1)..MaxWait : BatchStart(<<[Line("wait", 2, "num") EXCEPT !.secs = d]>>)
  \/ batch.pc = "idle" /\ \E n \in 1..MaxKeys : \E keys \in [1..n -> KeyNames] : BatchStart(<<[Line("press", 2, "key") EXCEPT !.keys = keys]>>)
  \/ \E raises \in BOOLEAN : BatchStep(raises)
  \/ BatchReturn
SpecLine == InitBatch /\ [][NextLine]_vars

\* extractions in one session, over pages of every content
NextExtract == \E n \in 0..MaxListings : \E pg \in [1..n -> Listings], fails \in BOOLEAN : ExtractJobs(pg, fails)
SpecExtract == InitBatch /\ [][NextExtract]_vars

\* the texts of full scans, over scans of every size and trees of every shape
NextText ==
  \/ \E n \in 0..MaxScan : \E p \in 0..n : GetPageElementsText(n, p)
  \/ \E tree \in Trees(MaxDepth) : ScanTree(tree)
SpecText == InitBatch /\ [][NextText]_vars

\* connect_real_chrome and the cleanup on every thread, with a Chrome that listens or not;
\* a thread that can take a free lock takes it, and the body under the lock terminates
NextMutex == \E t \in Threads : RcCall(t) \/ RcAcquire(t) \/ RcAttach(t) \/ (\E late \in BOOLEAN : RcAttachRaises(t, late)) \/ CleanupBegin(t) \/ CleanupAllManagers(t)
FairMutex == \A t \in Threads : WF_vars(RcAcquire(t)) /\ WF_vars(RcAttach(t) \/ \E late \in BOOLEAN : RcAttachRaises(t, late))
SpecMutex == InitConnect /\ [][NextMutex]_vars /\ FairMutex

\* ---------------------------------------------------------------- properties
\* session t is attached to the Chrome on the remote-debugging endpoint
AttachedSession(t) == mgr[t].context # NoCtx /\ mgr[t].context[1] = chrome /\ ~mgr[t].owns

\* C1: once a set_page has put a URL U in the descriptor, a get_page of any attached
\* session returns an open tab whose URL is U whenever such a tab is open.
C1_ActiveTabSync ==
  [][\A t \in Threads :
       (GetPage(t) /\ AttachedSession(t) /\ gUrl # "" /\ \E p \in Range(AllPagesOf(chrome)) : url[p] = gUrl)
         => (res'[t].val # None /\ ~IsClosed(res'[t].val) /\ url[res'[t].val] = gUrl)]_vars

\* the case of C2: the local page's URL differs from the descriptor's and no open tab has
\* the descriptor's URL
Drifted(t) ==
  /\ mgr[t].cdp /\ mgr[t].browser # None
  /\ gUrl # ""
  /\ mgr[t].page # None
  /\ url[mgr[t].page] # gUrl
  /\ get_all_pages(mgr[t]) # <<>>
  /\ \A p \in Range(get_all_pages(mgr[t])) : url[p] # gUrl

C3_SetPageWritesBoth ==
  [][\A t \in Threads : \A i \in IndexInputs :
       (SwCall(t, i) /\ pc'[t] # "idle") => (mgr'[t].page = loc'[t].target /\ gUrl' = url[loc'[t].target])]_vars

\* C4: at most one thread at a time is inside a first attach or launch attempt of
\* connect_real_chrome or connect_persistent.
C4_OneAttemptAtATime == Cardinality({t \in Threads : pc[t] \in {"rc_locked", "cp_attach", "cp_launch"}}) <= 1

\* positions inside get_playwright_manager
GpmPcs == {"gpm_store", "gpm_quiet", "gpm_append"}

\* C5: get_playwright_manager returns the calling thread's own session object, the same one
\* on every call; no two threads hold the same object; an object is constructed only on a
\* thread's first call and is appended to _all_managers exactly once.
C5_OneSessionPerThread ==
  /\ [](/\ \A t \in Threads : res[t].op = "get_playwright_manager" => (mgr[t].made /\ res[t].val = mgr[t].serial)
        /\ \A t, u \in Threads : (t # u /\ mgr[t].made /\ mgr[u].made) => mgr[t].serial # mgr[u].serial
        /\ created = Cardinality({t \in Threads : mgr[t].made})
        /\ \A t \in Threads : appends[t] = (IF mgr[t].made /\ pc[t] \notin GpmPcs THEN 1 ELSE 0))
  /\ [][\A t \in Threads : mgr[t].made => (mgr'[t].made /\ mgr'[t].serial = mgr[t].serial)]_vars

\* a thread has asked for its manager again and got the one it made, while another thread
\* holds a manager too
C5_Witness ==
  \E t, u \in Threads : /\ t # u
                        /\ res[t].op = "get_playwright_manager" /\ res[t].out = "existing"
                        /\ mgr[u].made /\ pc[u] \notin GpmPcs

\* C6: every driver call on a session is made by the thread that created the session.
C6_ThreadAffinity == "foreign" \notin ops

\* the call of thread t that ends in this step needed to attach: the endpoint is
\* unreachable and the session has no open page
NeedsAttachUnreachable(t) == chrome = None /\ ~HasOpenPage(mgr[t]) /\ pc'[t] = "idle"

\* C7: with the endpoint unreachable, connect_real_chrome and connect_to_chrome make exactly
\* one attach attempt and raise ConnectionError.
C7_OneAttemptThenError ==
  [][\A t \in Threads :
       ((RcAttach(t) \/ CcCall(t) \/ CcAttach(t)) /\ NeedsAttachUnreachable(t))
         => (res'[t].out = "ConnectionError" /\ res'[t].att = 1)]_vars

\* every handle of the manager is released
IsClosedManager(m) == m.page = None /\ m.context = NoCtx /\ m.browser = None /\ ~m.playwright /\ ~m.cdp

\* C8: _cleanup_all_managers never raises, leaves every tracked session closed and the
\* tracked list empty, and run again on that state it changes nothing.
C8_CleanupIdempotent ==
  [][\A a \in Threads : CleanupAllManagers(a) =>
       /\ res'[a].out = "ok"
       /\ allManagers' = <<>>
       /\ \A o \in Tracked : IsClosedManager(mgr'[o])
       /\ (allManagers = <<>> => UNCHANGED <<browserVars, mgr, gIndex, gUrl, launchLock, allManagers, connCount, created, appends, ops>>)]_vars

\* two threads have each run the cleanup after a session had connected
C8_Witness ==
  \E a, b \in Threads : /\ a # b
                        /\ res[a].op = "_cleanup_all_managers" /\ res[b].op = "_cleanup_all_managers"
                        /\ ops # {}
                        /\ allManagers = <<>>
                        /\ \A o \in Threads : mgr[o].made => IsClosedManager(mgr[o])

\* C9: a tab switch writes the descriptor in one piece and as its last step: while a
\* switch is between its steps the descriptor is either untouched by it or complete, and
\* it is untouched until the tab was brought to front.
C9_AtomicFinalWrite ==
  \A t \in Threads :
    /\ (pc[t] = "sw_index" /\ loc[t].wrote) => gIndex = IndexOf(AllPagesOf(mgr[t].browser), loc[t].target) - 1
    /\ pc[t] \in {"sw_index", "sw_front"} => ~loc[t].wrote

\* C10: within one page lifetime no ref token is handed out twice.
C10_RefsUnique == \A k \in Tokens : issued[k] <= 1


\* C11: a full scan by get_page_elements leaves in the table the resolver uses exactly the
\* refs that scan minted, so that no ref of an earlier scan resolves any more.
C11_FullScanClearsTable ==
  [][GetPageElements => (elementMap' = Range(lastScan') /\ \A r \in Tokens : r \notin Range(lastScan') => ~Resolves(r)')]_vars

\* C13: a full scan that follows a full scan by the same scanner, with no change of the page
\* in between, returns the same ref tokens in the same order.
C13_ScanDeterminism ==
  [][((GetPageElements /\ scanBy = "get_page_elements") \/ (ScanPageElements /\ scanBy = "scan_page_elements")) => lastScan' = lastScan]_vars

\* C18: a click that changes nothing in the page computes an overlay-count delta of 0 and
\* reports neither an opened nor a closed popup.
C18_SameQueryNoDelta ==
  [][\A d \in DomStates : (ClickAt(d) /\ d = dom) => (toolOut'.delta = 0 /\ toolOut'.changes \cap {"POPUP", "Popup closed"} = {})]_vars

\* C19: a click that opens one overlay (nothing else on the page changes) reports a delta of
\* +1 and one new ref per accepted child of the overlay, none of them issued before.
C19_OverlayDiff ==
  [][\A d \in DomStates : (ClickAt(d) /\ dom.ovl = 0 /\ d.ovl = 1 /\ d.flt = dom.flt /\ d.n = dom.n)
        => (/\ toolOut'.delta = 1
            /\ Len(toolOut'.refs) = (IF d.kids > 0 THEN d.kids ELSE d.kidsRetry)
            /\ \A k \in Range(toolOut'.refs) : issued[k] = 0)]_vars

\* C17: for every requested height y and every viewport height vh >= 2 the height at which
\* the click is made lies in [1, vh - 1].
C17_CorrectedYInRange == toolOut.text = "Clicked" => (1 <= toolOut.y /\ toolOut.y <= toolOut.vh - 1)

\* what the resolver reports when it does not find the node of a ref, and "no script" when
\* the resolver script cannot be read
Unresolved == {"unknown", "gone", "no script"}

\* the texts the three callers return when the ref did not resolve
NotFoundTexts == {"Failed to resolve", "Internal Error", "Element not found", "Script file not found", "Failed to find element"}

\* C12: a click, a lookup or a fill whose ref did not resolve (unknown ref, node gone, or no
\* resolver script) returns a not-found text, issues no pointer or keyboard event and
\* leaves the page and the ref tables as they were.
C12_ResolutionFailureIsValue ==
  [][(toolOut' # toolOut /\ toolOut'.resolved \in Unresolved)
       => (toolOut'.text \in NotFoundTexts /\ toolOut'.events = <<>> /\ UNCHANGED <<dom, refCounter, elementMap, gone>>)]_vars

\* a click by a ref whose node was removed has returned
C12_Witness == toolOut.tool = "click_at" /\ toolOut.resolved = "gone" /\ toolOut.ref \in elementMap

\* C20 as stated: a click call returns either a summary (a change or 'No visible UI change',
\* and the URL) or a 'Click failed' / 'Failed to resolve' text.
C20_SummaryOrNamedFailure ==
  toolOut.tool = "click_at" =>
    \/ toolOut.text = "Clicked" /\ toolOut.changes # {} /\ toolOut.url
    \/ toolOut.text \in {"Click failed", "Failed to resolve"}

\* C20 amended: a click call returns either a summary (at least one change or, alone, 'No
\* visible UI change' when no overlay change was detected; and the URL) or one of the texts
\* 'Click failed', 'Failed to resolve', 'Error' and 'Internal Error', which carry neither.
C20_SummaryOrFailure ==
  toolOut.tool = "click_at" =>
    \/ /\ toolOut.text = "Clicked"
       /\ toolOut.url
       /\ toolOut.changes # {}
       /\ "No visible UI change" \in toolOut.changes => (toolOut.changes = {"No visible UI change"} /\ toolOut.delta = 0 /\ toolOut.refs = <<>>)
    \/ /\ toolOut.text \in {"Click failed", "Failed to resolve", "Error", "Internal Error"}
       /\ toolOut.changes = {}
       /\ ~toolOut.url

\* a click that changed nothing has returned its summary
C20_Witness == toolOut.text = "Clicked" /\ toolOut.changes = {"No visible UI change"} /\ toolOut.url

\* the batch has run its loop to the end
BatchDone == batch.pc = "returned" /\ toolOut.text = "results"

\* C14: the lines are processed in the given order, command k+1 does not start before
\* command k has its status, and a batch that started returns exactly one status entry per
\* non-blank line, in the order of the lines.
C14_OneStatusPerLineInOrder ==
  /\ batch.pc = "running" => (Len(batch.results) = batch.i - 1 /\ batch.ran = [k \in 1..(batch.i - 1) |-> k])
  /\ BatchDone => /\ Len(batch.results) = Len(NonBlank(batch.raw))
                  /\ \A k \in 1..Len(batch.results) : batch.results[k].line = k /\ batch.results[k].src = NonBlank(batch.raw)[k]

\* a batch with a blank line between two commands has returned
C14_Witness ==
  /\ BatchDone
  /\ Len(batch.raw) = 3 /\ batch.raw[2] = BlankLine /\ Len(batch.results) = 2
  /\ batch.results[1].src # batch.results[2].src

\* the lines with an unrecognized verb or too few parts for their verb
Malformed(l) == l.verb \notin {"click", "fill", "input", "set", "type", "press", "wait", "scroll"} \/ l.parts < (IF l.verb \in {"fill", "input", "set", "type"} THEN 3 ELSE 2)

\* C15: whatever is wrong with a line (unrecognized verb, too few or non-numeric arguments, a
\* ref that does not exist, an exception), every later line is still dispatched, the line has
\* its own status entry, and that entry is the unknown/invalid one for a line with an
\* unrecognized verb or too few parts.
C15_BatchIsolation ==
  BatchDone =>
    /\ batch.ran = [k \in 1..Len(NonBlank(batch.raw)) |-> k]
    /\ \A k \in 1..Len(NonBlank(batch.raw)) :
         /\ k <= Len(batch.results) /\ batch.results[k].line = k
         /\ Malformed(NonBlank(batch.raw)[k]) => batch.results[k].mark = "?"
         /\ NonBlank(batch.raw)[k].arg = "word" /\ ~Malformed(NonBlank(batch.raw)[k]) /\ NonBlank(batch.raw)[k].verb # "scroll" => batch.results[k].mark = "X"

\* a batch whose first line raised and whose last line took effect has returned
C15_Witness ==
  /\ BatchDone
  /\ Len(batch.results) = 3
  /\ batch.results[1].mark = "X" /\ batch.results[2].mark = "?" /\ batch.results[3].effect

\* C16: an entry starts with 'OK' exactly if its command took effect.
C16_FailureReported ==
  \A k \in 1..Len(batch.results) : (batch.results[k].mark = "OK") <=> batch.results[k].effect

\* C21: in every call, every pointer click is immediately preceded by a pointer move (to
\* the same point: a call uses one point for all its pointer events).
C21_HoverBeforeClick ==
  \A k \in 1..Len(toolOut.events) :
    toolOut.events[k] \in {"click", "click3"} => (k > 1 /\ toolOut.events[k - 1] = "move")

\* C28: under every interleaving of first calls of get_playwright_manager, the session
\* created first has quiet = FALSE and every session created after it has quiet = TRUE.
C28_QuietFlag ==
  \A t \in Threads :
    (mgr[t].made /\ pc[t] \notin {"gpm_store", "gpm_quiet"}) => (mgr[t].quiet <=> mgr[t].serial > 1)

\* C29: close() makes no close call on the context (or the browser) of a browser the
\* session attached to over the remote-debugging endpoint; it closes context and browser
\* only for a browser the session launched.
C29_CloseSparesAttached ==
  [][\A a \in Threads : CleanupAllManagers(a) =>
       \A o \in Tracked : AttachedSession(o) => (~ClosesContext(o) /\ \A b \in ChromeIds : ~ClosesBrowser(a, o, b))]_vars

\* C30: a navigation of the session's active tab does not change which tab is active: the
\* get_page that follows navigate_to_url in a session returns the tab that navigated, when
\* no other session made a call (so nobody switched tabs in between), whatever the URLs of
\* the other open tabs.
C30_NavigationKeepsTab ==
  [][\A t \in Threads :
       (GetPage(t) /\ res[t].op = "navigate_to_url" /\ \A o \in Threads \ {t} : res[o] = NoRes /\ pc[o] = "idle")
         => res'[t].val = res[t].val]_vars

\* C22: the wait_seconds tool and the batch command 'wait <seconds>' reject a duration
\* outside 0..30 with an error status and without sleeping, and for an accepted duration d
\* they sleep for d and report d.
C22_BoundedWait ==
  /\ toolOut.tool = "wait_seconds" =>
       IF toolOut.asked < 0 \/ toolOut.asked > WaitLimit
       THEN toolOut.text # "Waited" /\ toolOut.slept = 0
       ELSE toolOut.text = "Waited" /\ toolOut.slept = toolOut.asked
  /\ \A k \in 1..Len(batch.results) :
       batch.results[k].src.verb = "wait" =>
         IF batch.results[k].src.secs < 0 \/ batch.results[k].src.secs > WaitLimit
         THEN batch.results[k].mark # "OK" /\ batch.results[k].slept = 0
         ELSE batch.results[k].mark = "OK" /\ batch.results[k].slept = batch.results[k].src.secs

\* C25: the batch command 'press k1+k2+...+kn' sends the key string press_key sends for the
\* same expression: every component translated through the table, case-insensitively,
\* unknown names unchanged.
C25_BatchPressMapsKeys ==
  /\ toolOut.tool = "press_key" /\ toolOut.text = "Pressed" =>
       \A k \in 1..Len(toolOut.sent) : MapKey(toolOut.sent[k]) = toolOut.sent[k]
  /\ \A k \in 1..Len(batch.results) :
       (batch.results[k].src.verb = "press" /\ batch.results[k].mark = "OK")
         => batch.results[k].sent = [j \in 1..Len(batch.results[k].src.keys) |-> MapKey(batch.results[k].src.keys[j])]

\* C23: when extract_jobs is called on a page that shows what it showed at the previous
\* call of the session, the call adds no record: the accumulated list stays as it was.
C23_ExtractionIdempotent ==
  [][(/\ toolOut.tool = "extract_jobs" /\ toolOut.shown # <<>>
      /\ toolOut'.tool = "extract_jobs" /\ extraction'.pages = extraction.pages + 1
      /\ toolOut'.shown = toolOut.shown)
        => (extraction'.jobs = extraction.jobs /\ toolOut'.delta = 0)]_vars

\* the second call of a session was made on the page of the first and added nothing
C23_Witness ==
  /\ extraction.pages = 2
  /\ toolOut.tool = "extract_jobs" /\ toolOut.delta = 0
  /\ Len(toolOut.shown) = 2 /\ extraction.jobs = toolOut.shown

\* C24: the accumulated list and the list in the file never hold two records with the same
\* key (the id if the record has one, else its title), and a call keeps the records stored
\* before it where they are.
C24_NoDuplicateKeys ==
  /\ \A i, j \in 1..Len(extraction.jobs) : i # j => JobKey(extraction.jobs[i]) # JobKey(extraction.jobs[j])
  /\ \A i, j \in 1..Len(extraction.saved) : i # j => JobKey(extraction.saved[i]) # JobKey(extraction.saved[j])
  /\ Len(extraction.saved) <= Len(extraction.jobs) /\ extraction.saved = SubSeq(extraction.jobs, 1, Len(extraction.saved))

\* C26: when a full scan finds more than 50 entries, the text get_page_elements returns
\* lists exactly the first 50 entries, each whole and in scan order, and the map holds a
\* ref for every scanned element.
C26_ScanOutputCap ==
  (toolOut.tool = "get_page_elements" /\ toolOut.asked > OutputCap) =>
    /\ {l[1] : l \in Range(toolOut.shown)} = 1..OutputCap
    /\ \A l \in Range(toolOut.shown) : \A q \in 1..l[3] : <<l[1], q, l[3]>> \in Range(toolOut.shown)
    /\ \A i, j \in 1..Len(toolOut.shown) : i < j => toolOut.shown[i][1] <= toolOut.shown[j][1]
    /\ toolOut.delta = toolOut.asked

\* C27: in the text of scan_page_elements, the interesting children of an emitted node are
\* one level deeper than the node if the node has more than one interesting child, and at
\* the depth of the node otherwise.
C27_IndentByInterestingChildren ==
  toolOut.tool = "scan_page_elements" =>
    \A e, c \in Range(toolOut.shown) :
      (Len(c.path) = Len(e.path) + 1 /\ SubSeq(c.path, 1, Len(e.path)) = e.path)
        => c.depth = e.depth + (IF e.good > 1 THEN 1 ELSE 0)

\* C31: after new_page(url) or close_page() has changed the active page of a session
\* attached over the remote-debugging endpoint, the next get_page() of that session returns
\* that page and the descriptor's URL is the URL of that page.
C31_NewActivePageIsReturned ==
  [][\A t \in Threads :
       (/\ mgr[t].cdp /\ mgr[t].browser # None
        /\ \/ (\E u \in Urls : NewPage(t, u)) /\ res'[t].out = "page"
           \/ CloseCurrentTab(t) /\ res'[t].out = "closed" /\ mgr'[t].page \notin {None, mgr[t].page})
         => (/\ (OpenOrNone(SyncedPage(mgr[t])))' = mgr'[t].page
             /\ gUrl' = url'[mgr'[t].page])]_vars

\* C32: a connect_real_chrome that attaches while the descriptor holds a URL that some open
\* tab shows makes that tab the session's page and leaves the descriptor as it is; when the
\* descriptor's URL is empty or no open tab shows it, the session takes the first tab of
\* the first context and writes it into the descriptor.
C32_JoinsActiveTab ==
  [][\A t \in Threads :
       (RcAttach(t) /\ ~HasOpenPage(mgr[t]) /\ chrome # None /\ AllPagesOf(chrome) # <<>>)
         => IF gUrl # "" /\ FirstWithUrl(AllPagesOf(chrome), gUrl) # None
            THEN /\ mgr'[t].page \in Range(AllPagesOf(chrome))
                 /\ url[mgr'[t].page] = gUrl
                 /\ UNCHANGED <<gUrl, gIndex>>
            ELSE /\ mgr'[t].page = AllPagesOf(chrome)[1]
                 /\ gUrl' = url[AllPagesOf(chrome)[1]]
                 /\ gIndex' = 0]_vars

\* C33: _BROWSER_LAUNCH_LOCK is held only inside the with block of connect_real_chrome,
\* so it is free again after every exit of the block; the thread that holds it holds no
\* other lock; a call on a session with an open page returns without taking it; and every
\* thread that waits for it eventually enters the block.
C33_MutexReleased ==
  /\ [](\A t \in Threads : launchLock = t => (pc[t] = "rc_locked" /\ managersLock # t))
  /\ [][\A t \in Threads : (RcCall(t) /\ HasOpenPage(mgr[t])) => (pc'[t] = "idle" /\ launchLock' = launchLock)]_vars
  /\ \A t \in Threads : (pc[t] = "rc_wait") ~> (pc[t] = "rc_locked")

\* a thread is inside the block after the attach of another thread failed, and the lock
\* is not held by that other thread
C33_Witness ==
  \E t, u \in Threads : /\ t # u
                        /\ pc[t] = "rc_locked" /\ launchLock = t
                        /\ res[u].op = "connect_real_chrome" /\ res[u].out = "ConnectionError"
                        /\ pc[u] = "idle"

\* C34: whenever connect_to_chrome, connect, connect_persistent or connect_real_chrome
\* returns normally, the page it returns is the session's active page and is open.
C34_ConnectReturnsOpenPage ==
  [][\A t \in Threads :
       (ConnectStep(t) /\ pc'[t] = "idle" /\ res'[t].out \notin {"ConnectionError", "Error"})
         => (/\ res'[t].val = mgr'[t].page
             /\ res'[t].val # None
             /\ (~IsClosed(res[t].val))')]_vars

\* C35: whenever connect_real_chrome raises ConnectionError, the session has no open
\* active page and is not flagged as attached over the remote-debugging endpoint, and the
\* descriptor has the value it had before the call.
C35_FailedConnectLeavesNothing ==
  [][\A t \in Threads :
       ((RcAttach(t) \/ \E late \in BOOLEAN : RcAttachRaises(t, late)) /\ res'[t].out = "ConnectionError")
         => (/\ (~HasOpenPage(mgr[t]))'
             /\ ~mgr'[t].cdp
             /\ UNCHANGED <<gUrl, gIndex>>)]_vars

\* C36: every session that holds a started driver (a live connection) is in _all_managers,
\* so that the shutdown cleanup closes it.
C36_CleanupCoverage == \A t \in Threads : (mgr[t].made /\ mgr[t].playwright) => t \in Tracked

\* C37: while the session of a thread u is attached to the browser, switch_to_tab and
\* close_current_tab run on a thread t whose session has not connected yet work on the
\* tabs u sees: an index that names one of them is accepted, and with more than one of them
\* open the current tab is closed.
C37_OneTabSet ==
  [][\A t, u \in Threads :
       (/\ t # u
        /\ mgr[t].browser = None /\ mgr[t].context = NoCtx
        /\ chrome # None /\ mgr[u].cdp /\ mgr[u].browser = chrome /\ HasOpenPage(mgr[u]))
         => (/\ \A i \in 0..(Len(get_all_pages(mgr[u])) - 1) : SwCall(t, i) => res'[t].out # "invalid"
             /\ (CloseCurrentTab(t) /\ Len(get_all_pages(mgr[u])) > 1) => res'[t].out = "closed")]_vars

\* C38: a _click_at_impl call that reached the input step issued exactly one pointer
\* click, whatever the page showed afterwards; it ran the retry enumeration at most once,
\* and only when the overlay count grew and the first enumeration was empty.
C38_ExactlyOneClick ==
  (toolOut.tool = "click_at" /\ "move" \in Range(toolOut.events)) =>
    /\ Cardinality({k \in 1..Len(toolOut.events) : toolOut.events[k] = "click"}) = 1
    /\ toolOut.text = "Clicked" =>
         /\ toolOut.retries \in {0, 1}
         /\ toolOut.retries = 1 => (toolOut.delta > 0 /\ dom.kids = 0)

\* a click left a checkbox focused and opened an overlay whose first enumeration was
\* empty, so that the retry ran
C38_Witness ==
  /\ toolOut.tool = "click_at" /\ toolOut.text = "Clicked"
  /\ "Checkbox is now" \in toolOut.changes
  /\ toolOut.retries = 1
  /\ Len(toolOut.refs) > 0

\* C39: with n open tabs, switch_to_tab(i) for i in -n..n-1 makes tab i (n+i for a negative
\* i) the session's active page and the descriptor's tab; for any other index it returns
\* an error text and leaves the active page and the descriptor as they are; and
\* close_current_tab with exactly one open tab closes nothing.
C39_SwitchIndexHandling ==
  [][\A t \in Threads :
       LET pages == get_all_pages(mgr[t])
           n == Len(pages)
       IN  /\ \A i \in IndexInputs : SwCall(t, i) =>
                IF 0 - n <= i /\ i <= n - 1
                THEN /\ mgr'[t].page = pages[Normalised(i, n) + 1]
                     /\ gUrl' = url[pages[Normalised(i, n) + 1]]
                ELSE /\ res'[t].out = "invalid"
                     /\ UNCHANGED <<mgr, gUrl, gIndex>>
           /\ (SwIndex(t) /\ ~IsClosed(loc[t].target)) => gIndex' = IndexOf(pages, loc[t].target) - 1
           /\ (CloseCurrentTab(t) /\ n = 1) => (res'[t].out = "last" /\ UNCHANGED ctxs)]_vars

\* C40: in a viewport of height vh, _click_at_impl issues a wheel scroll before the click
\* if and only if the requested y is below 0 or above vh; the delta is y - floor(vh / 2),
\* negative for a y above the viewport, and the click is then made at floor(vh / 2); for
\* a y inside the viewport there is no scroll and the click is made at y.
C40_AutoScrollAmount ==
  toolOut.text = "Clicked" =>
    LET outside == toolOut.reqY < 0 \/ toolOut.reqY > toolOut.vh
        half == CHOOSE h \in 0..toolOut.vh : 2 * h <= toolOut.vh /\ toolOut.vh < 2 * h + 2
    IN  /\ ("wheel" \in Range(toolOut.events)) <=> outside
        /\ outside => /\ toolOut.events = <<"wheel", "move", "click">>
                      /\ toolOut.scroll = toolOut.reqY - half
                      /\ toolOut.y = half
                      /\ toolOut.reqY < 0 => toolOut.scroll < 0
        /\ ~outside => (toolOut.scroll = 0 /\ toolOut.y = toolOut.reqY)

\* a click was asked for above a viewport of odd height, and it scrolled up
C40_Witness ==
  /\ toolOut.text = "Clicked"
  /\ toolOut.reqY < 0
  /\ toolOut.vh % 2 = 1
  /\ "wheel" \in Range(toolOut.events)
  /\ toolOut.scroll < 0
====
